---- MODULE Spec2Model ----
(***************************************************************************)
(* Differential ZIP backup (vrtmrz/diffzip): the backup pass createZip,    *)
(* the VersionHistory document (TOC), the split archive pieces at the      *)
(* destination, single-file restore (extract) and bulk restore             *)
(* (restoreVault).                                                         *)
(***************************************************************************)
EXTENDS Integers, Sequences, FiniteSets, TLC

VARIABLES
    now,        \* wall clock in ms at the last event (Date.getTime())
    src,        \* the live vault: path -> file or NoFile
    destFiles,  \* archive pieces at the destination: piece name -> buffer
    destToc,    \* the persisted backupinfo.md: NoDoc or the document
    settings,   \* maxSize, maxFilesInZip, performNextBackupOnMaxFiles
    timers,     \* pending setTimeout continuations of createZip, in order
    budget,     \* what the environment will still do: passes, edits, faults, restores
    touched,    \* whether the vault changed since the last backup pass
    usedNames,  \* archive names under which earlier passes wrote output
    last        \* observation of the most recent operation

vars == <<now, src, destFiles, destToc, settings, timers, budget, touched, usedNames, last>>

----------------------------------------------------------------------------
(* Bounds of the model *)

MaxPasses == 3
MaxEdits == 1
MaxFaults == 1
\* the runs in which restores are explored
RestorePasses == 2
RestoreEdits == 2
MaxRestores == 1
\* the runs in which archive data gets corrupted
CorruptPasses == 2
CorruptEdits == 2
MaxCorruptions == 1
MaxTime == 3000
MaxFailAt == 2
\* the buffers and chunk sizes pieces() is applied to
MaxLen == 6
MaxChunk == 3

Paths == {"A", "B"}
FileBytes == {<<[byte |-> 1]>>, <<[byte |-> 2]>>}
MTimes == {500, 1500}
\* the versions a file of the vault can have: every content and mtime for A,
\* a single version for B
Versions(p) ==
    IF p = "A" THEN {[kind |-> "file", content |-> c, mtime |-> m] : c \in FileBytes, m \in MTimes}
    ELSE {[kind |-> "file", content |-> <<[byte |-> 1]>>, mtime |-> 500]}
StartTime == 1000

(* Program constants *)

InfoFile == "backupinfo.md"
ChainDelay == 10
MsPerSecond == 1000
SecondsPerDay == 86400
\* One "MiB" of the model: the unit of settings.maxSize and the chunk that
\* extract pushes into the Extractor, scaled down to four tokens.
MiB == 4
\* Number.MAX_SAFE_INTEGER, as the largest integer of the model checker
LATEST == 2147483647

----------------------------------------------------------------------------
(* Small helpers *)

Min(a, b) == IF a < b THEN a ELSE b

RECURSIVE Flatten(_)
Flatten(ss) == IF ss = <<>> THEN <<>> ELSE Head(ss) \o Flatten(Tail(ss))

IsPrefix(s, t) == Len(s) <= Len(t) /\ SubSeq(t, 1, Len(s)) = s

Range(s) == {s[i] : i \in 1..Len(s)}

----------------------------------------------------------------------------
(* util.ts *)

\* source.slice(offset, offset + chunkSize)
Slice(source, from, to) ==
    SubSeq(source, from + 1, Min(to, Len(source)))

RECURSIVE piecesFrom(_, _, _), piecesFromShort(_, _, _)

\* pieces() with the loop bound off by one chunk, losing the last chunk
\* (a variant the split checks must tell apart)
piecesFromShort(source, chunkSize, offset) ==
    IF offset + chunkSize < Len(source)
    THEN <<Slice(source, offset, offset + chunkSize)>>
             \o piecesFromShort(source, chunkSize, offset + chunkSize)
    ELSE <<>>

\* function* pieces(source, chunkSize): the chunks it yields, in order
piecesFrom(source, chunkSize, offset) ==
    IF offset < Len(source)
    THEN <<Slice(source, offset, offset + chunkSize)>>
             \o piecesFrom(source, chunkSize, offset + chunkSize)
    ELSE <<>>

pieces(source, chunkSize) == piecesFrom(source, chunkSize, 0)

\* SHA-256 as a hex string: injective on the contents of the model, never "".
computeDigest(data) == <<Len(data)>> \o [i \in 1..Len(data) |-> data[i].byte]

EmptyDigest == <<>>

----------------------------------------------------------------------------
(* Dates *)

\* new Date(ms).toISOString() and new Date(iso).getTime()
toISOString(ms) == [iso |-> ms]
getTime(iso) == iso.iso

\* `${year}-${month}-${date}-${secondsInDay}.zip` with
\* secondsInDay = ~~(getTime() / 1000 - tzOffset * 60) % 86400, in UTC
newFileNameAt(today) ==
    [date |-> today \div (MsPerSecond * SecondsPerDay),
     secondsInDay |-> (today \div MsPerSecond) % SecondsPerDay]

----------------------------------------------------------------------------
(* Archive.ts: Archiver *)

\* The container is a stream of tokens: a local header per entry, the data
\* of the entry, an end-of-entry marker, and the central directory written
\* by end().
Header(name, mtime) == [hdr |-> name, mtime |-> mtime]
EndOfEntry == [eof |-> TRUE]
CentralDirectory(names) == [cd |-> names]

IsHeader(tok) == "hdr" \in DOMAIN tok
IsEnd(tok) == "eof" \in DOMAIN tok
IsDirectory(tok) == "cd" \in DOMAIN tok
\* a part of the deflated data of an entry that no longer inflates
Corrupted == [corrupt |-> TRUE]
IsCorrupt(tok) == "corrupt" \in DOMAIN tok

\* Archiver.addFile(file, path, {mtime}): the bytes the codec emits for it
addFile(file, path, mtime) == <<Header(path, mtime)>> \o file \o <<EndOfEntry>>

\* addTextFile(text, path, {mtime})
addTextFile(text, path, mtime) == addFile(text, path, mtime)

\* Archiver.finalize(): the concatenation of every emitted chunk; entries is
\* the sequence of addFile calls made on this Archiver
finalize(entries) ==
    Flatten([i \in 1..Len(entries) |->
                addFile(entries[i].data, entries[i].name, entries[i].mtime)])
        \o <<CentralDirectory([i \in 1..Len(entries) |-> entries[i].name])>>

----------------------------------------------------------------------------
(* Archive.ts: Extractor *)

\* The state of one Extractor: the entry being read (open), whether the
\* predicate accepted it, the data accumulated for it, whether ondata got
\* an error for it, the number of such errors, and the calls made to the
\* sink so far; asked lists the calls made to the predicate.
NewExtractor ==
    [open |-> FALSE, name |-> "", accepted |-> FALSE, data |-> <<>>, failed |-> FALSE,
     errors |-> 0, out |-> <<>>, asked |-> <<>>]

\* an Extractor that hands every entry to the sink at its end, accepted or
\* not (a variant the dispatch checks must tell apart)
CloseEntryAll(x) ==
    IF x.open /\ ~x.failed
    THEN [x EXCEPT !.open = FALSE, !.data = <<>>,
                   !.out = Append(@, [name |-> x.name, data |-> x.data])]
    ELSE [x EXCEPT !.open = FALSE, !.data = <<>>]

\* the end of the open entry: the sink gets the accumulated bytes, unless
\* ondata was called with an error
CloseEntry(x) ==
    IF x.open /\ x.accepted /\ ~x.failed
    THEN [x EXCEPT !.open = FALSE, !.data = <<>>,
                   !.out = Append(@, [name |-> x.name, data |-> x.data])]
    ELSE [x EXCEPT !.open = FALSE, !.data = <<>>]

\* one token of pushed input; wanted is _isFileShouldBeExtracted as a set
ExtractorToken(x, tok, wanted) ==
    IF IsHeader(tok)
    THEN [CloseEntry(x) EXCEPT !.open = TRUE, !.name = tok.hdr,
                               !.accepted = tok.hdr \in wanted, !.failed = FALSE,
                               !.asked = Append(@, tok.hdr)]
    ELSE IF IsEnd(tok) \/ IsDirectory(tok) THEN CloseEntry(x)
    ELSE IF IsCorrupt(tok)
    THEN IF x.open /\ x.accepted
         THEN [x EXCEPT !.failed = TRUE, !.errors = @ + 1]
         ELSE x
    ELSE IF x.open /\ x.accepted THEN [x EXCEPT !.data = Append(@, tok)]
    ELSE x

\* Extractor.addZippedContent(chunk)
RECURSIVE addZippedContent(_, _, _)
addZippedContent(x, chunk, wanted) ==
    IF chunk = <<>> THEN x
    ELSE addZippedContent(ExtractorToken(x, Head(chunk), wanted), Tail(chunk), wanted)

\* for (const chunk of pieces(binary, size)) extractor.addZippedContent(chunk)
RECURSIVE pushChunks(_, _, _)
pushChunks(x, chunks, wanted) ==
    IF chunks = <<>> THEN x
    ELSE pushChunks(addZippedContent(x, Head(chunks), wanted), Tail(chunks), wanted)

----------------------------------------------------------------------------
(* storage.ts: the live vault (vaultAccess) and the destination (backups) *)

NoFile == [kind |-> "missing"]
File(content, mtime) == [kind |-> "file", content |-> content, mtime |-> mtime]

NoDoc == [exists |-> FALSE, bytes |-> <<>>]
Doc(bytes) == [exists |-> TRUE, bytes |-> bytes]

\* An I/O failure injected into one operation: at most one per operation.
\* kind: "none", "tocRead", "stat", "read", "readThrow", "pieceWrite",
\* "tocWrite", "zipRead", "restoreWrite"
Fault(kind, path, at) == [kind |-> kind, path |-> path, at |-> at]
NoFault == Fault("none", "", 0)

\* a file in a folder whose name starts with a dot: the vault index
\* (app.vault.getFiles, getAbstractFileByPath) does not list it, the
\* adapter does
HiddenFile == ".h"
IsHidden(path) == path = HiddenFile

\* get vaultAccess: DirectVault (the adapter) when includeHiddenFolder is
\* set, else NormalVault (the vault index); what the accessor can see
visible(path) == settings.includeHiddenFolder \/ ~IsHidden(path)

\* StorageAccessor.isFileExists on the live vault
vaultIsFileExists(path) == src[path] # NoFile /\ visible(path)

\* vaultAccess.stat(path): false when the file is gone or the backend fails
vaultStat(path, fault) ==
    IF fault.kind = "stat" /\ fault.path = path THEN NoFile
    ELSE IF ~visible(path) THEN NoFile
    ELSE src[path]

\* vaultAccess.readBinary(path): false on failure
vaultReadOk(path, fault) ==
    vaultIsFileExists(path) /\ ~(fault.kind = "read" /\ fault.path = path)

\* _readBinary ends in `return this.app.vault.adapter.readBinary(path)`: for
\* a file that exists and cannot be read the adapter rejects, and readBinary
\* rejects with it
vaultReadThrows(path, fault) ==
    src[path] # NoFile /\ fault.kind = "readThrow" /\ fault.path = path

\* the name of a piece at the destination: the archive name, unsuffixed
\* (ext = -1) or with "." + `00${pieceCount}`.slice(-3)
Suffix3(n) == n % 1000
PieceFile(zipName, pieceCount) ==
    [zip |-> zipName, ext |-> IF pieceCount = 0 THEN -1 ELSE Suffix3(pieceCount)]

\* backups.isExists(path) for a piece
backupsIsExists(file) == file \in DOMAIN destFiles

----------------------------------------------------------------------------
(* main.ts: the VersionHistory document *)

EmptyToc == <<>>

\* `\`\`\`\n${stringifyYaml(toc)}\n\`\`\`\n` encoded, and its parse
TocText(toc) == <<[text |-> toc]>>
parseYaml(bytes) == bytes[1].text

\* loadTOC(): {} when the document is missing, cannot be read or parsed
loadTOC(fault) ==
    IF ~destToc.exists THEN EmptyToc
    ELSE IF fault.kind = "tocRead" THEN EmptyToc
    ELSE parseYaml(destToc.bytes)

HistoryEntry(zipName, modified, processed, digest, missing) ==
    [zipName |-> zipName, modified |-> modified, processed |-> processed,
     digest |-> digest, missing |-> missing]

FileInfo(filename, digest, mtime, processed, missing, history) ==
    [filename |-> filename, digest |-> digest, mtime |-> mtime,
     processed |-> processed, missing |-> missing, history |-> history]

----------------------------------------------------------------------------
(* main.ts: createZip *)

\* the tombstone loop without `if (fileInfo.missing) continue`
\* (a variant the tombstone checks must tell apart)
missingFilesOfFlagged(toc, skipDeleted) ==
    {f \in DOMAIN toc : ~vaultIsFileExists(f) /\ ~skipDeleted}

\* "Find missing files": the tracked, unflagged paths with no live file,
\* unless skipDeleted
missingFilesOf(toc, skipDeleted) ==
    {f \in DOMAIN toc : ~toc[f].missing /\ ~vaultIsFileExists(f) /\ ~skipDeleted}

\* a tombstone that leaves the digest of the record as it was (a variant
\* the consistency checks must tell apart)
markMissingKeepDigest(toc, today, skipDeleted) ==
    [f \in DOMAIN toc |->
        IF f \in missingFilesOf(toc, skipDeleted)
        THEN FileInfo(toc[f].filename, toc[f].digest, today, today, TRUE,
                      Append(toc[f].history,
                             HistoryEntry(newFileNameAt(today), toISOString(today),
                                          today, EmptyDigest, TRUE)))
        ELSE toc[f]]

\* the tombstone loop: the record is flagged missing with its digest
\* cleared, and a missing entry is appended to its history
markMissing(toc, today, skipDeleted) ==
    [f \in DOMAIN toc |->
        IF f \in missingFilesOf(toc, skipDeleted)
        THEN FileInfo(toc[f].filename, EmptyDigest, today, today, TRUE,
                      Append(toc[f].history,
                             HistoryEntry(newFileNameAt(today), toISOString(today),
                                          today, EmptyDigest, TRUE)))
        ELSE toc[f]]

\* the state of the scan loop
ScanState(toc) ==
    [toc |-> toc, entries |-> <<>>, processedFiles |-> <<>>, zipped |-> 0, stop |-> FALSE,
     reads |-> {}, failed |-> {}, thrown |-> FALSE]

\* a scan that takes every file it reads as changed (a variant the
\* idempotence checks must tell apart)
notChangedNever(toc, path, digest) == FALSE

\* `path in toc` and `entry.digest == digest`: "Not changed"
notChanged(toc, path, digest) ==
    path \in DOMAIN toc /\ toc[path].digest = digest

\* a record rebuilt without the history it had (a variant the frame
\* checks must tell apart)
historyOfNone(toc, path) == <<>>

\* `toc[path]?.history ?? []`
historyOf(toc, path) ==
    IF path \in DOMAIN toc THEN toc[path].history ELSE <<>>

\* a scan that never skips a file for its mtime (a variant the only-new
\* checks must tell apart)
olderThanBackupNever(toc, path, mtime, onlyNew) == FALSE

\* `onlyNew && path in toc` and `mtime <= entry.mtime`: "older than the
\* last backup, skipping"
olderThanBackup(toc, path, mtime, onlyNew) ==
    onlyNew /\ path \in DOMAIN toc /\ mtime <= toc[path].mtime

\* "Could not read stat" / "Could not read": logged, then `continue`
scanFailure(st, path) == [st EXCEPT !.failed = @ \cup {path}]

\* one iteration of `for (const path of normalFiles)`
scanFile(st, path, today, onlyNew, fault) ==
    LET st1 == [st EXCEPT !.processedFiles = Append(@, path)]
        stat == vaultStat(path, fault)
        st2 == [st1 EXCEPT !.reads = @ \cup {path}]
    IN  IF stat = NoFile THEN scanFailure(st1, path)
        ELSE IF olderThanBackup(st.toc, path, stat.mtime, onlyNew) THEN st1
        ELSE IF vaultReadThrows(path, fault)
             THEN [scanFailure(st2, path) EXCEPT !.thrown = TRUE, !.stop = TRUE]
        ELSE IF ~vaultReadOk(path, fault) THEN scanFailure(st2, path)
        ELSE LET f == src[path].content
                 digest == computeDigest(f)
             IN  IF notChanged(st.toc, path, digest) THEN st2
                 ELSE [st2 EXCEPT
                        !.zipped = @ + 1,
                        !.toc = [q \in DOMAIN st.toc \cup {path} |->
                                   IF q = path
                                   THEN FileInfo(path, digest, stat.mtime, today, FALSE,
                                            Append(historyOf(st.toc, path),
                                                   HistoryEntry(newFileNameAt(today),
                                                                toISOString(stat.mtime),
                                                                today, digest, FALSE)))
                                   ELSE st.toc[q]],
                        !.entries = Append(@, [name |-> path, data |-> f, mtime |-> stat.mtime]),
                        !.stop = settings.maxFilesInZip > 0
                                    /\ st.zipped + 1 >= settings.maxFilesInZip]

RECURSIVE scanFiles(_, _, _, _, _), scanFilesNoStop(_, _, _, _, _)

\* a scan loop without the break at the max-files limit (a variant the
\* limit checks must tell apart)
scanFilesNoStop(st, normalFiles, today, onlyNew, fault) ==
    IF normalFiles = <<>> THEN st
    ELSE scanFilesNoStop(scanFile(st, Head(normalFiles), today, onlyNew, fault),
                         Tail(normalFiles), today, onlyNew, fault)

\* `for (const path of normalFiles)` with its break at the max-files limit
scanFiles(st, normalFiles, today, onlyNew, fault) ==
    IF normalFiles = <<>> \/ st.stop THEN st
    ELSE scanFiles(scanFile(st, Head(normalFiles), today, onlyNew, fault),
                   Tail(normalFiles), today, onlyNew, fault)

\* a piece size that takes max size 0 for one MiB (a variant the max-size
\* checks must tell apart)
stepOfMiB(maxSize, byteLength) == (IF maxSize = 0 THEN 1 ELSE maxSize) * MiB

\* `step`: the piece size in bytes
stepOf(maxSize, byteLength) ==
    IF maxSize = 0 THEN byteLength + 1 ELSE maxSize * MiB

\* a split whose first piece is always the unsuffixed one (a variant the
\* naming checks must tell apart)
firstPieceCountZero(byteLength, step) == 0

\* the pieceCount of the first chunk
firstPieceCount(byteLength, step) == IF byteLength > step THEN 1 ELSE 0

RECURSIVE writePieces(_, _, _, _, _), writePiecesAll(_, _, _, _, _)

\* a write loop that goes on after a failed write (a variant the abort
\* checks must tell apart)
writePiecesAll(files, zipName, chunks, pieceCount, n) ==
    IF chunks = <<>> THEN files
    ELSE LET outZipFile == PieceFile(zipName, pieceCount)
             written == [f \in DOMAIN files \cup {outZipFile} |->
                            IF f = outZipFile THEN Head(chunks) ELSE files[f]]
         IN  writePiecesAll(written, zipName, Tail(chunks), pieceCount + 1, n - 1)

\* the destination after the first n chunks were written
writePieces(files, zipName, chunks, pieceCount, n) ==
    IF n = 0 \/ chunks = <<>> THEN files
    ELSE LET outZipFile == PieceFile(zipName, pieceCount)
             written == [f \in DOMAIN files \cup {outZipFile} |->
                            IF f = outZipFile THEN Head(chunks) ELSE files[f]]
         IN  writePieces(written, zipName, Tail(chunks), pieceCount + 1, n - 1)

\* an archive whose first entry is the VersionHistory (a variant the
\* entry-order checks must tell apart)
withTocFirst(entries, tocEntry) == <<tocEntry>> \o entries

\* zip.addTextFile(..., InfoFile, ...) after the scan loop: the entries of
\* the archive, in the order they were added
withToc(entries, tocEntry) == Append(entries, tocEntry)

\* the part of a run after the scan: finalize, split, write, persist, chain
finishZip(loaded, tombstoned, st, today, fault) ==
    LET newFileName == newFileNameAt(today)
        entries == withToc(st.entries,
                           [name |-> InfoFile, data |-> TocText(st.toc), mtime |-> today])
        nothing == st.zipped = 0 /\ Cardinality(tombstoned) = 0
        \* the scan loop is outside the try block: a rejection in it ends
        \* createZip before anything is written
        idle == st.thrown \/ nothing
    IN  CHOOSE r \in
          {LET step == stepOf(settings.maxSize, Len(buf))
               okWrites == IF fault.kind = "pieceWrite" THEN Min(fault.at - 1, Len(chunks))
                           ELSE Len(chunks)
               piecesOk == okWrites = Len(chunks)
               tocOk == piecesOk /\ fault.kind # "tocWrite"
           IN  [loaded |-> loaded,
                newFileName |-> newFileName,
                tombstoned |-> tombstoned,
                toc |-> st.toc,
                admitted |-> [i \in 1..Len(st.entries) |-> st.entries[i].name],
                processedFiles |-> st.processedFiles,
                reads |-> st.reads,
                failed |-> st.failed,
                buf |-> buf,
                firstPiece |-> firstPieceCount(Len(buf), step),
                pieceCount |-> IF idle THEN 0 ELSE Len(chunks),
                okWrites |-> IF idle THEN 0 ELSE okWrites,
                files |-> IF idle THEN destFiles
                          ELSE writePieces(destFiles, newFileName, chunks,
                                           firstPieceCount(Len(buf), step), okWrites),
                tocDoc |-> IF ~idle /\ tocOk THEN Doc(TocText(st.toc)) ELSE destToc,
                outcome |-> IF st.thrown THEN "scanFail"
                            ELSE IF nothing THEN "nothing"
                            ELSE IF ~piecesOk THEN "pieceFail"
                            ELSE IF ~tocOk THEN "tocFail" ELSE "ok",
                chain |-> ~idle /\ tocOk /\ settings.maxFilesInZip > 0
                            /\ st.zipped >= settings.maxFilesInZip
                            /\ settings.performNextBackupOnMaxFiles]
           : <<buf, chunks>> \in
                {<<b, pieces(b, stepOf(settings.maxSize, Len(b)))>> : b \in {finalize(entries)}}}
          : TRUE

\* One whole run of createZip at time today. allFiles is the enumeration
\* of the live tree in the order the vault returns it.
createZipResult(today, allFiles, skippableFiles, onlyNew, skipDeleted, fault) ==
    CHOOSE r \in
      {finishZip(loaded, missingFilesOf(loaded, skipDeleted),
                 scanFiles(ScanState(markMissing(loaded, today, skipDeleted)),
                           SelectSeq(allFiles, LAMBDA e : e \notin skippableFiles),
                           today, onlyNew, fault),
                 today, fault)
       : loaded \in {loadTOC(fault)}}
      : TRUE

----------------------------------------------------------------------------
(* main.ts: extract *)

\* the numbered pieces found by probing zipPath.001, zipPath.002, ...
RECURSIVE partialZipPaths(_, _)
partialZipPaths(zipFile, counter) ==
    IF backupsIsExists(PieceFile(zipFile, counter))
    THEN <<PieceFile(zipFile, counter)>> \o partialZipPaths(zipFile, counter + 1)
    ELSE <<>>

\* `files`: the unsuffixed archive when it exists, else the numbered pieces
zipFilesOf(zipFile) ==
    IF backupsIsExists(PieceFile(zipFile, 0)) THEN <<PieceFile(zipFile, 0)>>
    ELSE partialZipPaths(zipFile, 1)

\* the loop over `files`: each piece is read and pushed in chunks of `size`;
\* a piece that cannot be read ends the loop
RECURSIVE readAndPush(_, _, _, _, _)
readAndPush(x, files, i, wanted, fault) ==
    IF i > Len(files) THEN [extractor |-> x, read |-> Len(files)]
    ELSE IF fault.kind = "zipRead" /\ fault.at = i THEN [extractor |-> x, read |-> i - 1]
    ELSE readAndPush(pushChunks(x, pieces(destFiles[files[i]], MiB), wanted),
                     files, i + 1, wanted, fault)

\* extract(zipFile, extractFiles, restoreAs, restorePrefix): the calls of the
\* sink, in order, as (restoreTo, bytes), and the number of pieces read
extractResult(zipFile, extractFiles, fault) ==
    CHOOSE r \in
      {[files |-> files, read |-> rp.read, out |-> rp.extractor.out,
        errors |-> rp.extractor.errors]
       : <<files, rp>> \in
           {<<f, readAndPush(NewExtractor, f, 1, extractFiles, fault)>>
            : f \in {zipFilesOf(zipFile)}}}
      : TRUE

\* the sink: vaultAccess.writeBinary(restoreTo, dat), which can fail
sinkWrites(out, fault) ==
    SelectSeq(out, LAMBDA w : ~(fault.kind = "restoreWrite" /\ fault.path = w.name))

\* The vault after the sink calls: each written path holds the bytes of one
\* of the calls made for it (the calls are not awaited by extract, so their
\* order is not fixed), with the time of the write as mtime.
vaultsAfter(writes, at) ==
    {f \in [Paths -> {NoFile} \cup {File(writes[i].data, at) : i \in 1..Len(writes)}
                     \cup {src[p] : p \in Paths}] :
        \A p \in Paths :
            IF \E i \in 1..Len(writes) : writes[i].name = p
            THEN \E i \in 1..Len(writes) : writes[i].name = p /\ f[p] = File(writes[i].data, at)
            ELSE f[p] = src[p]}

----------------------------------------------------------------------------
(* main.ts: restoreVault *)

NoFilter == [on |-> FALSE, at |-> <<>>]
Filter(at) == [on |-> TRUE, at |-> at]

\* history.filter(e => getTime(e.modified) <= cutoff)
historyUpTo(history, cutoff) ==
    SelectSeq(history, LAMBDA e : getTime(e.modified) <= cutoff)

\* history.sort((a, b) => getTime(b.modified) - getTime(a.modified))[0]:
\* the sort is stable, so among the entries with the greatest modified
\* timestamp the first in history order comes first
latestOf(history) ==
    history[CHOOSE i \in 1..Len(history) :
                /\ \A j \in 1..Len(history) :
                        getTime(history[j].modified) <= getTime(history[i].modified)
                /\ \A j \in 1..(i - 1) :
                        getTime(history[j].modified) < getTime(history[i].modified)]

\* a plan that never skips a record for being flagged missing (a variant
\* the plan checks must tell apart)
skipMissingNever(fileInfo, deleteMissing) == FALSE

\* `fileInfo.missing` and `!deleteMissing`: "is marked as missing, but
\* existing in the vault. Skipping..."
skipMissing(fileInfo, deleteMissing) == fileInfo.missing /\ ~deleteMissing

\* what the loop of restoreVault decides for one record:
\* "skip", "restore" (queued under zipName), with `deleting` when the path
\* was pushed on deletingFiles
planFile(filename, fileInfo, onlyNew, deleteMissing, fileFilter, fault) ==
    LET matched == ~fileFilter.on \/ filename \in DOMAIN fileFilter.at
        history == IF fileFilter.on /\ matched
                   THEN historyUpTo(fileInfo.history, fileFilter.at[filename])
                   ELSE fileInfo.history
        skip == [action |-> "skip", deleting |-> FALSE, zipName |-> newFileNameAt(0)]
    IN  IF ~matched THEN skip
        ELSE IF Len(history) = 0 THEN skip
        ELSE LET latest == latestOf(history)
                 localStat == vaultStat(filename, fault)
                 queue == [action |-> "restore", deleting |-> FALSE, zipName |-> latest.zipName]
             IN  IF localStat # NoFile
                 THEN IF ~vaultReadOk(filename, fault) THEN skip
                      ELSE IF computeDigest(src[filename].content) = latest.digest THEN skip
                      ELSE IF skipMissing(fileInfo, deleteMissing) THEN skip
                      ELSE IF onlyNew /\ localStat.mtime >= getTime(latest.modified)
                           THEN [skip EXCEPT !.deleting = fileInfo.missing]
                           ELSE [queue EXCEPT !.deleting = fileInfo.missing]
                 ELSE IF fileInfo.missing THEN skip
                      ELSE queue

\* zipFileMap (archive name -> paths) and deletingFiles of restoreVault
restorePlan(files, onlyNew, deleteMissing, fileFilter, fault) ==
    CHOOSE plan \in
      {[zipFileMap |-> [z \in {d[f].zipName : f \in {g \in DOMAIN files : d[g].action = "restore"}}
                          |-> {f \in DOMAIN files : d[f].action = "restore" /\ d[f].zipName = z}],
        deletingFiles |-> {f \in DOMAIN files : d[f].deleting}]
       : d \in {[f \in DOMAIN files |->
                    planFile(f, files[f], onlyNew, deleteMissing, fileFilter, fault)]}}
      : TRUE

RECURSIVE extractAll(_, _, _), extractAllUntilError(_, _, _)

\* a loop over the archives that ends at the first archive in which an
\* entry failed to inflate (a variant the isolation checks must tell apart)
extractAllUntilError(zipFileMap, zipNames, fault) ==
    IF zipNames = {} THEN <<>>
    ELSE LET z == CHOOSE n \in zipNames : TRUE
             r == extractResult(z, zipFileMap[z], fault)
         IN  IF r.errors > 0 THEN r.out
             ELSE r.out \o extractAllUntilError(zipFileMap, zipNames \ {z}, fault)

\* the sink calls of `for (const [zipName, files] of zipFileMap) extract(...)`
extractAll(zipFileMap, zipNames, fault) ==
    IF zipNames = {} THEN <<>>
    ELSE LET z == CHOOSE n \in zipNames : TRUE
         IN  extractResult(z, zipFileMap[z], fault).out
                \o extractAll(zipFileMap, zipNames \ {z}, fault)

----------------------------------------------------------------------------
(* The state machine *)

\* the settings of the runs explored: pieces of one MiB or no max size,
\* and either no limit on the files of an archive or one file per archive
SettingsSet ==
    {[maxSize |-> ms, maxFilesInZip |-> mf, performNextBackupOnMaxFiles |-> TRUE,
      includeHiddenFolder |-> FALSE] :
        ms \in {0, 1}, mf \in {0, 1}}

Budget(passes, edits, faults, restores, corruptions) ==
    [passes |-> passes, edits |-> edits, faults |-> faults, restores |-> restores,
     corruptions |-> corruptions]

\* A vault with two files and an empty destination.
InitWith(b, obs) ==
    /\ now = StartTime
    /\ src = [p \in Paths |-> File(<<[byte |-> 1]>>, 500)]
    /\ destFiles = <<>>
    /\ destToc = NoDoc
    /\ settings \in SettingsSet
    /\ timers = <<>>
    /\ budget = b
    /\ touched = TRUE
    /\ usedNames = {}
    /\ last = obs

Init == InitWith(Budget(MaxPasses, MaxEdits, MaxFaults, 0, 0), [op |-> "none"])

\* the times at which a later event can be observed: ten milliseconds on,
\* or at the start of the next second
NextSecond(t) == ((t \div MsPerSecond) + 1) * MsPerSecond
Later(t) == {u \in {t + ChainDelay, NextSecond(t)} : u <= MaxTime}

\* getAllFiles(): the files of the vault, in the order the vault lists them
PathOrder == <<"A", "B", HiddenFile>>
getAllFiles ==
    SelectSeq(PathOrder, LAMBDA p : p \in DOMAIN src /\ src[p] # NoFile /\ visible(p))

\* the failures that can hit one pass: none, or one while faults are left
PassFaults ==
    IF budget.faults = 0 THEN {NoFault}
    ELSE {NoFault, Fault("tocRead", "", 0), Fault("tocWrite", "", 0)}
            \cup {Fault("stat", p, 0) : p \in Paths}
            \cup {Fault("read", p, 0) : p \in Paths}
            \cup {Fault("readThrow", p, 0) : p \in Paths}
            \cup {Fault("pieceWrite", "", k) : k \in 1..MaxFailAt}

spend(fault) == IF fault = NoFault THEN budget.faults ELSE budget.faults - 1

\* The user edits or creates a file of the vault.
Modify(p, v) ==
    /\ budget.edits > 0
    /\ src[p] # v
    /\ src' = [src EXCEPT ![p] = v]
    /\ budget' = [budget EXCEPT !.edits = @ - 1]
    /\ touched' = TRUE
    /\ UNCHANGED <<now, destFiles, destToc, settings, timers, usedNames, last>>

\* The user deletes a file of the vault.
Delete(p) ==
    /\ budget.edits > 0
    /\ src[p] # NoFile
    /\ src' = [src EXCEPT ![p] = NoFile]
    /\ budget' = [budget EXCEPT !.edits = @ - 1]
    /\ touched' = TRUE
    /\ UNCHANGED <<now, destFiles, destToc, settings, timers, usedNames, last>>

\* the live paths the only-new rule kept out of the scan although their
\* content differs from the recorded one
skippedOld(loaded, allFiles, skippableFiles, onlyNew) ==
    {p \in Range(allFiles) \ skippableFiles :
        /\ onlyNew
        /\ p \in DOMAIN loaded
        /\ src[p].mtime <= loaded[p].mtime
        /\ loaded[p].digest # computeDigest(src[p].content)}

\* a follow-up that excludes only what its predecessor excluded (a variant
\* the chain checks must tell apart)
nextSkippableSame(skippableFiles, processedFiles) == skippableFiles

\* `[...skippableFiles, ...processedFiles]`: what the follow-up pass excludes
nextSkippable(skippableFiles, processedFiles) ==
    skippableFiles \cup Range(processedFiles)

\* createZip(verbosity, skippableFiles, onlyNew, skipDeleted) run at today
createZip(today, allFiles, skippableFiles, onlyNew, skipDeleted, fault, pending) ==
    \E r \in {createZipResult(today, allFiles, skippableFiles, onlyNew, skipDeleted, fault)} :
        /\ budget' = [budget EXCEPT !.passes = @ - 1, !.faults = spend(fault)]
        /\ now' = today
        /\ destFiles' = r.files
        /\ destToc' = r.tocDoc
        /\ timers' = IF r.chain
                     THEN Append(pending,
                                 [skippableFiles |->
                                      nextSkippable(skippableFiles, r.processedFiles),
                                  onlyNew |-> onlyNew, skipDeleted |-> skipDeleted,
                                  due |-> today + ChainDelay])
                     ELSE pending
        /\ touched' = FALSE
        /\ usedNames' = IF r.okWrites > 0 THEN usedNames \cup {r.newFileName} ELSE usedNames
        /\ last' = [op |-> "backup",
                    skippedDeleted |-> skipDeleted /\ missingFilesOf(r.loaded, FALSE) # {},
                    skippedOld |-> skippedOld(r.loaded, allFiles, skippableFiles, onlyNew),
                    skippableFiles |-> skippableFiles,
                    loadFailed |-> destToc.exists /\ fault.kind = "tocRead",
                    faulty |-> fault # NoFault, untouched |-> ~touched,
                    newFileName |-> r.newFileName, tombstoned |-> r.tombstoned,
                    admitted |-> r.admitted, buf |-> r.buf, firstPiece |-> r.firstPiece,
                    processedFiles |-> r.processedFiles, reads |-> r.reads,
                    failed |-> r.failed, onlyNew |-> onlyNew,
                    pieceCount |-> r.pieceCount,
                    okWrites |-> r.okWrites, outcome |-> r.outcome, chain |-> r.chain,
                    reused |-> r.okWrites > 0 /\ r.newFileName \in usedNames]
        /\ UNCHANGED <<src, settings>>

\* One of the four backup commands (or the backup at launch).
BackupCommand ==
    /\ budget.passes > 0
    /\ \E today \in Later(now), onlyNew \in BOOLEAN, skipDeleted \in BOOLEAN,
       fault \in PassFaults :
        createZip(today, getAllFiles, {}, onlyNew, skipDeleted, fault, timers)

\* The continuation scheduled by setTimeout(..., 10) runs.
ContinueBackup ==
    /\ budget.passes > 0
    /\ timers # <<>>
    /\ LET t == Head(timers)
           t0 == IF now > t.due THEN now ELSE t.due
       IN  \E today \in {u \in {t0, NextSecond(t0)} : u <= MaxTime},
              fault \in PassFaults :
               createZip(today, getAllFiles, t.skippableFiles, t.onlyNew, t.skipDeleted,
                         fault, Tail(timers))

\* the failures that can hit one restore
RestoreFaults ==
    IF budget.faults = 0 THEN {NoFault}
    ELSE {NoFault, Fault("tocRead", "", 0)}
            \cup {Fault("stat", p, 0) : p \in Paths}
            \cup {Fault("read", p, 0) : p \in Paths}
            \cup {Fault("restoreWrite", p, 0) : p \in Paths}
            \cup {Fault("zipRead", "", k) : k \in 1..MaxFailAt}

\* "Where to restore?": the original place, or under the restore folder
RestoreMethods == {"overwrite", "restoreFolder"}
restoreAsOf(how, selected) ==
    IF how = "overwrite" THEN selected
    ELSE IF selected = "A" THEN "restored/A" ELSE "restored/B"

\* selectAndRestore(): the user picks a tracked path, one of its revisions
\* and the place to restore to; extract(filename, selected, restoreAs)
selectAndRestore(today, selected, i, how, fault) ==
    LET files == loadTOC(fault)
        entry == files[selected].history[i]
        restoreAs == restoreAsOf(how, selected)
    IN  \E r \in {extractResult(entry.zipName, {selected}, fault)} :
        \E writes \in {sinkWrites([k \in 1..Len(r.out) |->
                                      [name |-> restoreAs, data |-> r.out[k].data]], fault)} :
            /\ budget' = [budget EXCEPT !.restores = @ - 1, !.faults = spend(fault)]
            /\ now' = today
            /\ src' \in vaultsAfter(writes, today)
            /\ touched' = (touched \/ src' # src)
            /\ last' = [op |-> "extract", selected |-> selected, entry |-> entry,
                        restoreAs |-> restoreAs, found |-> Len(r.files), read |-> r.read,
                        faulty |-> fault # NoFault,
                        written |-> [k \in 1..Len(writes) |-> writes[k].data]]
            /\ UNCHANGED <<destFiles, destToc, settings, timers, usedNames>>

RestoreCommand ==
    /\ budget.restores > 0
    /\ \E today \in Later(now), fault \in RestoreFaults :
        \E selected \in DOMAIN loadTOC(fault) :
            \E i \in 1..Len(loadTOC(fault)[selected].history), how \in RestoreMethods :
                selectAndRestore(today, selected, i, how, fault)

\* the timestamps the restore dialog offers: Latest, or the modified time
\* of a history entry
Timestamps(files) ==
    {LATEST} \cup UNION {{getTime(files[f].history[i].modified) : i \in 1..Len(files[f].history)}
                         : f \in DOMAIN files}

\* the filters a caller passes: none (the commands), or one cutoff for
\* every listed path (the dialog)
FileFilters(files) ==
    {NoFilter} \cup {Filter([f \in DOMAIN files |-> t]) : t \in Timestamps(files)}

\* the number of pieces read by
\* `for (const [zipName, files] of zipFileMap) extract(...)`
RECURSIVE piecesRead(_, _, _)
piecesRead(zipFileMap, zipNames, fault) ==
    IF zipNames = {} THEN 0
    ELSE LET z == CHOOSE n \in zipNames : TRUE
         IN  extractResult(z, zipFileMap[z], fault).read
                + piecesRead(zipFileMap, zipNames \ {z}, fault)

RECURSIVE extractCalls(_, _), extractCallsOnePath(_, _)

\* a loop that hands extract one path of each archive only (a variant the
\* plan checks must tell apart)
extractCallsOnePath(zipFileMap, zipNames) ==
    IF zipNames = {} THEN <<>>
    ELSE LET z == CHOOSE n \in zipNames : TRUE
         IN  <<[zipName |-> z, files |-> {CHOOSE f \in zipFileMap[z] : TRUE}]>>
                \o extractCallsOnePath(zipFileMap, zipNames \ {z})

\* the calls `extract(zipName, files, undefined, prefix)` made by
\* `for (const [zipName, files] of zipFileMap)`
extractCalls(zipFileMap, zipNames) ==
    IF zipNames = {} THEN <<>>
    ELSE LET z == CHOOSE n \in zipNames : TRUE
         IN  <<[zipName |-> z, files |-> zipFileMap[z]]>>
                \o extractCalls(zipFileMap, zipNames \ {z})

\* a restore that goes on to extract whatever the dialog returned (a
\* variant the confirmation checks must tell apart)
proceedsUnasked(nothing, confirmed) == ~nothing

\* whether restoreVault goes on to extract: there is something to restore
\* and confirmWithMessage returned RESTORE_BUTTON
proceeds(nothing, confirmed) == ~nothing /\ confirmed

\* restoreVault(onlyNew, deleteMissing, fileFilter) with the answer to the
\* confirmation dialog
restoreVault(today, onlyNew, deleteMissing, fileFilter, confirmed, fault) ==
    \E plan \in {restorePlan(loadTOC(fault), onlyNew, deleteMissing, fileFilter, fault)} :
      LET nothing == DOMAIN plan.zipFileMap = {} /\ plan.deletingFiles = {}
          extracting == proceeds(nothing, confirmed)
      IN  \E writes \in {IF extracting
                         THEN sinkWrites(extractAll(plan.zipFileMap, DOMAIN plan.zipFileMap,
                                                    fault), fault)
                         ELSE <<>>} :
            /\ budget' = [budget EXCEPT !.restores = @ - 1, !.faults = spend(fault)]
            /\ now' = today
            /\ src' \in vaultsAfter(writes, today)
            /\ touched' = (touched \/ src' # src)
            /\ last' = [op |-> "restoreVault", onlyNew |-> onlyNew,
                        deleteMissing |-> deleteMissing, fileFilter |-> fileFilter,
                        faulty |-> fault # NoFault, plan |-> plan,
                        asked |-> ~nothing, answer |-> ~nothing /\ confirmed,
                        confirmed |-> extracting,
                        extracted |-> IF extracting
                                      THEN extractCalls(plan.zipFileMap,
                                                        DOMAIN plan.zipFileMap)
                                      ELSE <<>>,
                        read |-> IF extracting
                                 THEN piecesRead(plan.zipFileMap, DOMAIN plan.zipFileMap,
                                                 fault)
                                 ELSE 0,
                        written |-> {writes[k].name : k \in 1..Len(writes)}]
            /\ UNCHANGED <<destFiles, destToc, settings, timers, usedNames>>

RestoreVaultCommand ==
    /\ budget.restores > 0
    /\ \E today \in Later(now), fault \in RestoreFaults,
       onlyNew \in BOOLEAN, deleteMissing \in BOOLEAN, confirmed \in BOOLEAN :
        \E fileFilter \in FileFilters(loadTOC(fault)) :
            restoreVault(today, onlyNew, deleteMissing, fileFilter, confirmed, fault)

Next ==
    \/ \E p \in Paths : \E v \in Versions(p) : Modify(p, v)
    \/ \E p \in Paths : Delete(p)
    \/ BackupCommand
    \/ ContinueBackup

Spec == Init /\ [][Next]_vars

\* Backups and restores, with a backend that does not fail and pieces of
\* one MiB.
InitRestore ==
    /\ InitWith(Budget(RestorePasses, RestoreEdits, 0, MaxRestores, 0), [op |-> "none"])
    /\ settings.maxSize = 1

NextRestore ==
    \/ \E p \in Paths : \E v \in Versions(p) : Modify(p, v)
    \/ \E p \in Paths : Delete(p)
    \/ BackupCommand
    \/ ContinueBackup
    \/ RestoreCommand
    \/ RestoreVaultCommand

SpecRestore == InitRestore /\ [][NextRestore]_vars

----------------------------------------------------------------------------
(* Bulk restore from a destination in which archive data got corrupted *)

\* One file per archive, pieces of one MiB, a backend that does not fail.
InitCorrupt ==
    /\ InitWith(Budget(CorruptPasses, CorruptEdits, 0, MaxRestores, MaxCorruptions),
                [op |-> "none"])
    /\ settings.maxSize = 1
    /\ settings.maxFilesInZip = 1

\* A part of the data of a file entry stored at the destination is damaged.
Corrupt(file, i) ==
    /\ budget.corruptions > 0
    /\ "byte" \in DOMAIN destFiles[file][i]
    /\ destFiles' = [destFiles EXCEPT ![file][i] = Corrupted]
    /\ budget' = [budget EXCEPT !.corruptions = @ - 1]
    /\ UNCHANGED <<now, src, destToc, settings, timers, touched, usedNames, last>>

NextCorrupt ==
    \/ \E p \in Paths : Delete(p)
    \/ BackupCommand
    \/ ContinueBackup
    \/ \E file \in DOMAIN destFiles : \E i \in 1..Len(destFiles[file]) : Corrupt(file, i)
    \/ RestoreVaultCommand

SpecCorrupt == InitCorrupt /\ [][NextCorrupt]_vars

----------------------------------------------------------------------------
(* pieces() and the split of createZip applied to arbitrary buffers *)

Buffers == UNION {[1..n -> {[byte |-> 0], [byte |-> 1]}] : n \in 0..MaxLen}

InitPieces ==
    \E source \in Buffers, chunkSize \in 1..MaxChunk :
        InitWith(Budget(0, 0, 0, 0, 0),
                 [op |-> "buffer", source |-> source, chunkSize |-> chunkSize])

\* [...pieces(source, chunkSize)]
Split ==
    /\ last.op = "buffer"
    /\ last' = [op |-> "pieces", source |-> last.source, chunkSize |-> last.chunkSize,
                chunks |-> pieces(last.source, last.chunkSize)]
    /\ UNCHANGED <<now, src, destFiles, destToc, settings, timers, budget, touched, usedNames>>

\* the split and the writes of createZip, for the finalized buffer
\* last.source and the max size of the settings or no max size
WriteSplit ==
    /\ last.op = "buffer"
    /\ \E maxSize \in {0, settings.maxSize} :
        LET buf == last.source
            step == stepOf(maxSize, Len(buf))
            chunks == pieces(buf, step)
            pieceCount == firstPieceCount(Len(buf), step)
        IN  /\ destFiles' = writePieces(destFiles, newFileNameAt(now), chunks, pieceCount,
                                        Len(chunks))
            /\ last' = [op |-> "written", source |-> buf, zipName |-> newFileNameAt(now),
                        pieceCount |-> pieceCount, count |-> Len(chunks)]
    /\ UNCHANGED <<now, src, destToc, settings, timers, budget, touched, usedNames>>

NextPieces == Split \/ WriteSplit

SpecPieces == InitPieces /\ [][NextPieces]_vars

----------------------------------------------------------------------------
(* storage.ts: the accessors with a passphrase configured or not *)

\* the accessors the plugin builds: backups (getStorage: in-tree, external
\* filesystem or bucket, not local) and vaultAccess (in-tree or direct,
\* local)
Accessors ==
    {[type |-> t, isLocal |-> FALSE] : t \in {"normal", "external", "s3"}}
        \cup {[type |-> t, isLocal |-> TRUE] : t \in {"normal", "direct"}}

Passphrases == {"", "pw"}
StoragePaths == {"a.zip", InfoFile}

\* encryptCompatOpenSSL: the salted ciphertext, opaque without the password
encryptCompatOpenSSL(plaintext, password) == <<[enc |-> plaintext, key |-> password]>>

\* decryptCompatOpenSSL: the plaintext, or a thrown error when the data is
\* not a ciphertext made with the password
decryptCompatOpenSSL(encryptedData, password) ==
    IF /\ Len(encryptedData) = 1
       /\ "enc" \in DOMAIN encryptedData[1]
       /\ encryptedData[1].key = password
    THEN [ok |-> TRUE, data |-> encryptedData[1].enc]
    ELSE [ok |-> FALSE, data |-> <<>>]

\* `!this.isLocal && this.settings.passphraseOfZip`
ciphers(acc) == ~acc.isLocal /\ settings.passphraseOfZip # ""

\* _readBinary(path): false when the file does not exist
rawRead(path) ==
    IF path \in DOMAIN destFiles THEN [ok |-> TRUE, data |-> destFiles[path]]
    ELSE [ok |-> FALSE, data |-> <<>>]

\* StorageAccessor.readBinary(path)
readBinary(acc, path) ==
    IF ~rawRead(path).ok THEN rawRead(path)
    ELSE IF ciphers(acc) THEN decryptCompatOpenSSL(rawRead(path).data, settings.passphraseOfZip)
    ELSE rawRead(path)

\* StorageAccessor.readTOC(path)
readTOC(acc, path) ==
    IF acc.type # "normal" THEN readBinary(acc, path) ELSE rawRead(path)

\* StorageAccessor.writeBinary(path, data): the content given to _writeBinary
writeBinary(acc, data) ==
    IF ciphers(acc) THEN encryptCompatOpenSSL(data, settings.passphraseOfZip) ELSE data

\* StorageAccessor.writeTOC(path, data): the content given to _writeBinary
writeTOC(acc, data) ==
    IF acc.type # "normal" THEN writeBinary(acc, data) ELSE data

InitStorage ==
    /\ now = StartTime
    /\ src = [p \in Paths |-> NoFile]
    /\ destFiles = <<>>
    /\ destToc = NoDoc
    /\ \E pw \in Passphrases : settings = [passphraseOfZip |-> pw]
    /\ timers = <<>>
    /\ budget = Budget(0, 0, 0, 0, 0)
    /\ touched = FALSE
    /\ usedNames = {}
    /\ \E acc \in Accessors : last = [op |-> "accessor", acc |-> acc]

\* _writeBinary(path, content) on the backend
backendWrite(path, content) ==
    destFiles' = [f \in DOMAIN destFiles \cup {path} |->
                     IF f = path THEN content ELSE destFiles[f]]

WriteBinary(path, data) ==
    /\ backendWrite(path, writeBinary(last.acc, data))
    /\ last' = [op |-> "writeBinary", acc |-> last.acc, path |-> path, data |-> data]
    /\ UNCHANGED <<now, src, destToc, settings, timers, budget, touched, usedNames>>

WriteTOC(path, data) ==
    /\ backendWrite(path, writeTOC(last.acc, data))
    /\ last' = [op |-> "writeTOC", acc |-> last.acc, path |-> path, data |-> data]
    /\ UNCHANGED <<now, src, destToc, settings, timers, budget, touched, usedNames>>

ReadBinary(path) ==
    /\ last' = [op |-> "readBinary", acc |-> last.acc, path |-> path,
                result |-> readBinary(last.acc, path)]
    /\ UNCHANGED <<now, src, destFiles, destToc, settings, timers, budget, touched, usedNames>>

ReadTOC(path) ==
    /\ last' = [op |-> "readTOC", acc |-> last.acc, path |-> path,
                result |-> readTOC(last.acc, path)]
    /\ UNCHANGED <<now, src, destFiles, destToc, settings, timers, budget, touched, usedNames>>

NextStorage ==
    \/ \E path \in StoragePaths, data \in FileBytes : WriteBinary(path, data)
    \/ \E path \in StoragePaths, data \in FileBytes : WriteTOC(path, data)
    \/ \E path \in StoragePaths : ReadBinary(path)
    \/ \E path \in StoragePaths : ReadTOC(path)

SpecStorage == InitStorage /\ [][NextStorage]_vars

----------------------------------------------------------------------------
(* main.ts: the enumeration of createZip, with paths as character strings *)

\* Folder and file names are one character long here; a vault path joins
\* its segments with "/", whatever the platform.
VaultPaths ==
    {<<"n">>, <<"b", "/", "x">>, <<"r", "/", "x">>, <<"r", "x">>,
     <<"d", "/", "r", "/", "x">>}
VaultOrder ==
    <<(<<"b", "/", "x">>), (<<"d", "/", "r", "/", "x">>), (<<"n">>),
      (<<"r", "/", "x">>), (<<"r", "x">>)>>
MaxTreeFiles == 3

\* String.prototype.startsWith
startsWith(e, prefix) == IsPrefix(prefix, e)

\* get isDesktopMode
isDesktopMode == settings.desktopFolderEnabled /\ ~settings.isMobile

\* get backupFolder
backupFolder ==
    IF settings.bucketEnabled THEN settings.backupFolderBucket
    ELSE IF isDesktopMode THEN settings.BackupFolderDesktop
    ELSE settings.backupFolderMobile

\* storage.ts getStorageType(plugin): the back-end of `backups`
getStorageType ==
    IF isDesktopMode THEN "external"
    ELSE IF settings.bucketEnabled THEN "s3"
    ELSE "normal"

\* get sep: app.vault.adapter.path.sep in desktop mode, else "/"
sep == IF isDesktopMode THEN settings.pathSep ELSE "/"

\* allFiles.filter(e => !e.startsWith(backupFolder + sep) &&
\* !e.startsWith(restoreFolder + sep)).filter(e => skippableFiles.indexOf(e) == -1)
normalFilesOf(allFiles, skippableFiles) ==
    SelectSeq(SelectSeq(allFiles,
                        LAMBDA e : /\ ~startsWith(e, Append(backupFolder, sep))
                                   /\ ~startsWith(e, Append(settings.restoreFolder, sep))),
              LAMBDA e : e \notin skippableFiles)

\* the platforms and destinations: mobile or desktop, with the separator of
\* the platform's path module; the destination in the vault, in a folder
\* outside it, or in a bucket
InitEnumerate ==
    /\ now = StartTime
    /\ src = {}
    /\ destFiles = <<>>
    /\ destToc = NoDoc
    /\ \E desktop \in BOOLEAN, mobile \in BOOLEAN, bucket \in BOOLEAN, s \in {"/", "\\"} :
          settings = [desktopFolderEnabled |-> desktop, isMobile |-> mobile,
                      bucketEnabled |-> bucket, pathSep |-> s,
                      backupFolderMobile |-> <<"b">>,
                      BackupFolderDesktop |-> <<"c", ":", s, "t">>,
                      backupFolderBucket |-> <<"k">>,
                      restoreFolder |-> <<"r">>]
    /\ timers = <<>>
    /\ budget = Budget(0, 0, 0, 0, 0)
    /\ touched = FALSE
    /\ usedNames = {}
    /\ last = [op |-> "none"]

\* A file appears in the vault: written by the user, by a backup into a
\* destination folder of the vault, or by a restore into the restore folder.
CreateFile(e) ==
    /\ e \notin src
    /\ Cardinality(src) < MaxTreeFiles
    /\ src' = src \cup {e}
    /\ UNCHANGED <<now, destFiles, destToc, settings, timers, budget, touched, usedNames, last>>

\* createZip up to its scan loop: the paths the scan will visit
Enumerate ==
    /\ last' = [op |-> "enumerate",
                storageType |-> getStorageType, backupFolder |-> backupFolder,
                normalFiles |-> normalFilesOf(SelectSeq(VaultOrder, LAMBDA e : e \in src), {})]
    /\ UNCHANGED <<now, src, destFiles, destToc, settings, timers, budget, touched, usedNames>>

NextEnumerate ==
    \/ \E e \in VaultPaths : CreateFile(e)
    \/ Enumerate

SpecEnumerate == InitEnumerate /\ [][NextEnumerate]_vars

----------------------------------------------------------------------------
(* storage.ts: writes on a tree of files and folders *)

\* the entries of the tree: a folder d, an entry e in it, an entry f in d/e
TreeNodes == {<<"d">>, <<"d", "e">>, <<"d", "e", "f">>}
FolderAware == {"normal", "direct", "external"}

Missing == [kind |-> "missing", data |-> <<>>]
Folder == [kind |-> "folder", data |-> <<>>]
Entry(data) == [kind |-> "file", data |-> data]

\* checkType(path) on a tree
checkType(tree, path) == tree[path].kind

\* a directory walk that replaces a file found where a folder is needed
\* (a variant the collision checks must tell apart)
RECURSIVE ensureDirectoryReplacing(_, _, _, _), ensureDirectory(_, _, _, _)
ensureDirectoryReplacing(type, tree, fullPath, k) ==
    IF k >= Len(fullPath) THEN [ok |-> TRUE, tree |-> tree]
    ELSE ensureDirectoryReplacing(type, [tree EXCEPT ![SubSeq(fullPath, 1, k)] = Folder],
                                  fullPath, k + 1)

\* StorageAccessor.ensureDirectory(fullPath) from the k-th path element on:
\* a missing element is created as a folder, a file in the way throws
\* "File exists with the same name."; ExternalVaultFilesystem hands the
\* parent path to mkdir(..., {recursive: true}), which rejects on a file
ensureDirectory(type, tree, fullPath, k) ==
    IF k >= Len(fullPath) THEN [ok |-> TRUE, tree |-> tree]
    ELSE LET c == SubSeq(fullPath, 1, k)
         IN  IF checkType(tree, c) = "file" THEN [ok |-> FALSE, tree |-> tree]
             ELSE ensureDirectory(type, [tree EXCEPT ![c] = Folder], fullPath, k + 1)

\* _writeBinary(path, data): NormalVault throws "Folder exists with the
\* same name." for a folder; the adapter and fs writes of DirectVault and
\* ExternalVaultFilesystem reject for a folder, which is caught and returned
\* as false
writeEntry(type, tree, path, data) ==
    IF checkType(tree, path) = "folder"
    THEN [result |-> IF type = "normal" THEN "thrown" ELSE "false", tree |-> tree]
    ELSE [result |-> "ok", tree |-> [tree EXCEPT ![path] = Entry(data)]]

\* StorageAccessor.writeBinary(path, data) on a tree: ensureDirectory, then
\* _writeBinary
writeBinaryOn(type, tree, path, data) ==
    LET dir == ensureDirectory(type, tree, path, 1)
    IN  IF ~dir.ok THEN [result |-> "thrown", tree |-> dir.tree]
        ELSE writeEntry(type, dir.tree, path, data)

InitCollide ==
    /\ now = StartTime
    /\ src = [p \in Paths |-> NoFile]
    /\ destFiles = [n \in TreeNodes |-> Missing]
    /\ destToc = NoDoc
    /\ settings = [passphraseOfZip |-> ""]
    /\ timers = <<>>
    /\ budget = Budget(0, 0, 0, 0, 0)
    /\ touched = FALSE
    /\ usedNames = {}
    /\ \E t \in FolderAware : last = [op |-> "accessor", type |-> t]

\* an entry can be made where its parent is a folder (or at the top)
canHold(tree, n) ==
    /\ tree[n] = Missing
    /\ Len(n) > 1 => tree[SubSeq(n, 1, Len(n) - 1)].kind = "folder"

\* Someone makes a folder or a file in the tree.
MakeFolder(n) ==
    /\ canHold(destFiles, n)
    /\ destFiles' = [destFiles EXCEPT ![n] = Folder]
    /\ UNCHANGED <<now, src, destToc, settings, timers, budget, touched, usedNames, last>>

MakeFile(n, data) ==
    /\ canHold(destFiles, n)
    /\ destFiles' = [destFiles EXCEPT ![n] = Entry(data)]
    /\ UNCHANGED <<now, src, destToc, settings, timers, budget, touched, usedNames, last>>

\* accessor.writeBinary(path, data)
WriteOn(path, data) ==
    /\ \E r \in {writeBinaryOn(last.type, destFiles, path, data)} :
          /\ destFiles' = r.tree
          /\ last' = [op |-> "write", type |-> last.type, path |-> path, data |-> data,
                      result |-> r.result,
                      collided |-> \/ destFiles[path].kind = "folder"
                                   \/ \E k \in 1..(Len(path) - 1) :
                                         destFiles[SubSeq(path, 1, k)].kind = "file"]
    /\ UNCHANGED <<now, src, destToc, settings, timers, budget, touched, usedNames>>

NextCollide ==
    \/ \E n \in TreeNodes : MakeFolder(n)
    \/ \E n \in TreeNodes, data \in FileBytes : MakeFile(n, data)
    \/ \E n \in TreeNodes, data \in FileBytes : WriteOn(n, data)

SpecCollide == InitCollide /\ [][NextCollide]_vars

----------------------------------------------------------------------------
(* Backups of a vault with a hidden file, the hidden-inclusion setting
   being switched on and off *)

HiddenPasses == 2
HiddenEdits == 2

InitHidden ==
    /\ now = StartTime
    /\ src = [p \in {"A", HiddenFile} |-> File(<<[byte |-> 1]>>, 500)]
    /\ destFiles = <<>>
    /\ destToc = NoDoc
    /\ \E mf \in {0, 1}, hidden \in BOOLEAN :
          settings = [maxSize |-> 0, maxFilesInZip |-> mf,
                      performNextBackupOnMaxFiles |-> TRUE, includeHiddenFolder |-> hidden]
    /\ timers = <<>>
    /\ budget = Budget(HiddenPasses, HiddenEdits, 0, 0, 0)
    /\ touched = TRUE
    /\ usedNames = {}
    /\ last = [op |-> "none"]

\* The user switches "Include hidden folders" in the settings tab.
ToggleHidden ==
    /\ budget.edits > 0
    /\ settings' = [settings EXCEPT !.includeHiddenFolder = ~@]
    /\ budget' = [budget EXCEPT !.edits = @ - 1]
    /\ UNCHANGED <<now, src, destFiles, destToc, timers, touched, usedNames, last>>

NextHidden ==
    \/ \E p \in DOMAIN src : \E v \in Versions(p) : Modify(p, v)
    \/ \E p \in DOMAIN src : Delete(p)
    \/ ToggleHidden
    \/ BackupCommand
    \/ ContinueBackup

SpecHidden == InitHidden /\ [][NextHidden]_vars

----------------------------------------------------------------------------
(* Chains of automatically continued passes, run to their end *)

ChainCommands == 1
ChainEdits == 1

InitChain == InitWith(Budget(ChainCommands, ChainEdits, MaxFaults, 0, 0), [op |-> "none"])

\* The continuation scheduled by setTimeout(..., 10) runs: whenever a timer
\* is pending, however many passes ran before.
ContinueChain ==
    /\ timers # <<>>
    /\ LET t == Head(timers)
           t0 == IF now > t.due THEN now ELSE t.due
       IN  \E today \in {t0} \cup {u \in {NextSecond(t0)} : u <= MaxTime},
              fault \in PassFaults :
               createZip(today, getAllFiles, t.skippableFiles, t.onlyNew, t.skipDeleted,
                         fault, Tail(timers))

NextChain ==
    \/ \E p \in Paths : \E v \in Versions(p) : Modify(p, v)
    \/ \E p \in Paths : Delete(p)
    \/ BackupCommand
    \/ ContinueChain

\* a pending timer fires: the event loop runs the callback of setTimeout
SpecChain == InitChain /\ [][NextChain]_vars /\ WF_vars(ContinueChain)

----------------------------------------------------------------------------
(* Two runs of createZip on one destination, interleaved at their awaits *)

RunIds == {1, 2}
ConcurrentEdits == 1

InitConcurrent ==
    /\ InitWith(Budget(Cardinality(RunIds), ConcurrentEdits, 0, 0, 0),
                [op |-> "runs", runs |-> [i \in RunIds |-> [pc |-> "idle"]]])
    /\ settings.maxFilesInZip = 0

\* a persist that reads the document again and keeps the records another
\* run wrote for paths this run did not touch (a variant the lost-update
\* checks must tell apart)
persistedByMerging(run, current) ==
    [q \in DOMAIN run.toc \cup DOMAIN current |->
        IF /\ q \in DOMAIN current
           /\ \/ q \notin DOMAIN run.toc
              \/ (q \in DOMAIN run.loaded /\ run.toc[q] = run.loaded[q])
        THEN current[q] ELSE run.toc[q]]

\* writeTOC(tocFilePath, stringifyYaml(toc)): the document a run persists
\* is the one it loaded at its start, with its own changes
persistedBy(run, current) == run.toc

\* createZip from its start to the end of the scan: the VersionHistory is
\* loaded, the missing files are marked and the changed files are added to
\* the archive in memory. Nothing tells whether another run is under way.
StartRun(i) ==
    /\ budget.passes > 0
    /\ last.runs[i].pc = "idle"
    /\ \E today \in Later(now), onlyNew \in BOOLEAN :
        \E r \in {createZipResult(today, getAllFiles, {}, onlyNew, FALSE, NoFault)} :
          /\ now' = today
          /\ budget' = [budget EXCEPT !.passes = @ - 1]
          /\ last' = [last EXCEPT !.runs[i] =
                        [pc |-> IF r.outcome = "nothing" THEN "done" ELSE "scanned",
                         loaded |-> r.loaded, toc |-> r.toc, newFileName |-> r.newFileName,
                         buf |-> r.buf, firstPiece |-> r.firstPiece,
                         persisted |-> FALSE]]
    /\ touched' = FALSE
    /\ UNCHANGED <<src, destFiles, destToc, settings, timers, usedNames>>

\* the write loop of the run: every piece is written
WriteRun(i) ==
    /\ last.runs[i].pc = "scanned"
    /\ LET run == last.runs[i]
           chunks == pieces(run.buf, stepOf(settings.maxSize, Len(run.buf)))
       IN  destFiles' = writePieces(destFiles, run.newFileName, chunks, run.firstPiece,
                                    Len(chunks))
    /\ usedNames' = usedNames \cup {last.runs[i].newFileName}
    /\ last' = [last EXCEPT !.runs[i].pc = "written"]
    /\ UNCHANGED <<now, src, destToc, settings, timers, budget, touched>>

\* "Update TOC": the run persists its VersionHistory
PersistRun(i) ==
    /\ last.runs[i].pc = "written"
    /\ destToc' = Doc(TocText(persistedBy(last.runs[i], loadTOC(NoFault))))
    /\ last' = [last EXCEPT !.runs[i].pc = "done", !.runs[i].persisted = TRUE]
    /\ UNCHANGED <<now, src, destFiles, settings, timers, budget, touched, usedNames>>

NextConcurrent ==
    \/ \E p \in Paths : \E v \in Versions(p) : Modify(p, v)
    \/ \E p \in Paths : Delete(p)
    \/ \E i \in RunIds : StartRun(i)
    \/ \E i \in RunIds : WriteRun(i)
    \/ \E i \in RunIds : PersistRun(i)

SpecConcurrent == InitConcurrent /\ [][NextConcurrent]_vars

----------------------------------------------------------------------------
(* Bulk restore with the writes of the sink as tasks of their own *)

InflightPasses == 2
InflightEdits == 2

InitInflight ==
    /\ InitWith(Budget(InflightPasses, InflightEdits, 0, MaxRestores, 0), [op |-> "none"])
    /\ settings.maxSize = 0

\* `for (const [zipName, files] of zipFileMap)`: a Map iterates in insertion
\* order, and an archive is inserted with the first of its paths in the
\* order of the records
firstArchive(zipFileMap, remaining) ==
    CHOOSE z \in remaining :
        \E k \in 1..Len(PathOrder) :
            /\ PathOrder[k] \in zipFileMap[z]
            /\ \A y \in remaining \ {z} : \A j \in 1..k : PathOrder[j] \notin zipFileMap[y]

\* restoreVault up to the confirmation, confirmed: the plan is made and the
\* loop over the archives is about to start
StartRestore ==
    /\ budget.restores > 0
    /\ \E onlyNew \in BOOLEAN, deleteMissing \in BOOLEAN :
        \E plan \in {restorePlan(loadTOC(NoFault), onlyNew, deleteMissing, NoFilter, NoFault)} :
          last' = [op |-> IF DOMAIN plan.zipFileMap = {} THEN "nothing" ELSE "restoring",
                   zipFileMap |-> plan.zipFileMap, remaining |-> DOMAIN plan.zipFileMap,
                   opened |-> 0, inflight |-> {}]
    /\ budget' = [budget EXCEPT !.restores = @ - 1]
    /\ UNCHANGED <<now, src, destFiles, destToc, settings, timers, touched, usedNames>>

\* `await this.extract(zipName, files)`: the pieces are read and pushed into
\* the Extractor; ondata is an async callback whose promise nobody awaits,
\* so each call of the sink is a task of its own, still to run when the
\* promise of extract resolves
ExtractNext ==
    /\ last.op = "restoring"
    /\ LET z == firstArchive(last.zipFileMap, last.remaining)
           out == extractResult(z, last.zipFileMap[z], NoFault).out
       IN  last' = [last EXCEPT
                      !.op = IF last.remaining = {z} THEN "restored" ELSE "restoring",
                      !.remaining = @ \ {z},
                      !.opened = @ + 1,
                      !.inflight = @ \cup {[zipName |-> z, name |-> out[k].name,
                                            data |-> out[k].data] : k \in 1..Len(out)}]
    /\ UNCHANGED <<now, src, destFiles, destToc, settings, timers, budget, touched, usedNames>>

\* One call of the sink runs to its end: vaultAccess.writeBinary(restoreTo, dat)
FinishWrite(w) ==
    /\ last.op \in {"restoring", "restored"}
    /\ w \in last.inflight
    /\ src' = [src EXCEPT ![w.name] = File(w.data, now)]
    /\ last' = [last EXCEPT !.inflight = @ \ {w}]
    /\ touched' = TRUE
    /\ UNCHANGED <<now, destFiles, destToc, settings, timers, budget, usedNames>>

NextInflight ==
    \/ \E p \in Paths : \E v \in Versions(p) : Modify(p, v)
    \/ \E p \in Paths : Delete(p)
    \/ (last.op \in {"none", "backup"} /\ BackupCommand)
    \/ (last.op \in {"none", "backup"} /\ ContinueBackup)
    \/ (last.op \in {"none", "backup"} /\ StartRestore)
    \/ ExtractNext
    \/ \E w \in (IF last.op \in {"restoring", "restored"} THEN last.inflight ELSE {}) :
          FinishWrite(w)

SpecInflight == InitInflight /\ [][NextInflight]_vars

----------------------------------------------------------------------------
(* Archive.ts: the Archiver and the callbacks of its codec *)

MaxEmits == 3
CodecChunks == {<<>>, <<[byte |-> 1]>>, <<[byte |-> 2]>>}

\* promiseWithResolver: a promise settles at its first resolve or reject,
\* later calls change nothing
Pending == [state |-> "pending", value |-> <<>>]
settle(promise, state, value) ==
    IF promise.state = "pending" THEN [state |-> state, value |-> value] ELSE promise

\* new Archiver()
NewArchiver ==
    [output |-> <<>>, aborted |-> FALSE, promise |-> Pending, finalising |-> FALSE,
     blob |-> <<>>]

\* a callback that looks at the final flag before the abort flag (a variant
\* the completion checks must tell apart)
onProgressFinalFirst(a, err, data, final) ==
    IF err THEN [a EXCEPT !.promise = settle(@, "rejected", <<>>)]
    ELSE LET out == IF Len(data) > 0 THEN Append(a.output, data) ELSE a.output
         IN  IF final
             THEN [a EXCEPT !.output = out, !.finalising = TRUE, !.blob = Flatten(out)]
             ELSE IF a.aborted
             THEN [a EXCEPT !.output = out, !.promise = settle(@, "rejected", <<>>)]
             ELSE [a EXCEPT !.output = out]

\* _onProgress(err, data, final), with _onError, _onAborted and the part of
\* _onFinalise before its await: the Blob of the output so far
onProgress(a, err, data, final) ==
    IF err THEN [a EXCEPT !.promise = settle(@, "rejected", <<>>)]
    ELSE LET out == IF Len(data) > 0 THEN Append(a.output, data) ELSE a.output
         IN  IF a.aborted
             THEN [a EXCEPT !.output = out, !.promise = settle(@, "rejected", <<>>)]
             ELSE IF final
             THEN [a EXCEPT !.output = out, !.finalising = TRUE, !.blob = Flatten(out)]
             ELSE [a EXCEPT !.output = out]

InitArchiver ==
    /\ now = StartTime
    /\ src = [p \in Paths |-> NoFile]
    /\ destFiles = <<>>
    /\ destToc = NoDoc
    /\ settings = [passphraseOfZip |-> ""]
    /\ timers = <<>>
    /\ budget = Budget(0, 0, 0, 0, 0)
    /\ touched = FALSE
    /\ usedNames = {}
    /\ last = [op |-> "archiver", archiver |-> NewArchiver, emitted |-> <<>>,
               errorSeen |-> FALSE, abortSeen |-> FALSE, finalSeen |-> FALSE,
               settlements |-> 0]

\* The codec calls back with an error or a chunk; the chunk after end() is
\* the final one, and nothing is emitted after it.
Emit(err, data, final) ==
    /\ last.op = "archiver"
    /\ ~last.finalSeen
    /\ Len(last.emitted) < MaxEmits
    /\ \E a \in {onProgress(last.archiver, err, data, final)} :
          last' = [last EXCEPT
                      !.archiver = a,
                      !.emitted = Append(@, [err |-> err, data |-> data]),
                      !.errorSeen = @ \/ err,
                      !.abortSeen = @ \/ (~err /\ last.archiver.aborted),
                      !.finalSeen = final,
                      !.settlements = IF a.promise.state # last.archiver.promise.state
                                      THEN @ + 1 ELSE @]
    /\ UNCHANGED <<now, src, destFiles, destToc, settings, timers, budget, touched, usedNames>>

\* Something sets _aborted.
Abort ==
    /\ last.op = "archiver"
    /\ ~last.archiver.aborted
    /\ last' = [last EXCEPT !.archiver.aborted = TRUE]
    /\ UNCHANGED <<now, src, destFiles, destToc, settings, timers, budget, touched, usedNames>>

\* _onFinalise after its await: this._zipFilePromise.resolve(result)
Finalised ==
    /\ last.op = "archiver"
    /\ last.archiver.finalising
    /\ \E pr \in {settle(last.archiver.promise, "resolved", last.archiver.blob)} :
          last' = [last EXCEPT
                      !.archiver.promise = pr,
                      !.archiver.finalising = FALSE,
                      !.settlements = IF pr.state # last.archiver.promise.state
                                      THEN @ + 1 ELSE @]
    /\ UNCHANGED <<now, src, destFiles, destToc, settings, timers, budget, touched, usedNames>>

NextArchiver ==
    \/ \E err \in BOOLEAN, data \in CodecChunks, final \in BOOLEAN : Emit(err, data, final)
    \/ Abort
    \/ Finalised

SpecArchiver == InitArchiver /\ [][NextArchiver]_vars

----------------------------------------------------------------------------
(* Archive.ts: the Extractor fed an archive chunk by chunk *)

MaxEntries == 2
EntryData == {<<>>, <<[byte |-> 1]>>, <<[byte |-> 1], [byte |-> 2]>>}
ArchiveEntries ==
    UNION {[1..n -> {[name |-> p, data |-> d, mtime |-> 500] : p \in Paths, d \in EntryData}]
           : n \in 0..MaxEntries}

InitExtractor ==
    /\ now = StartTime
    /\ src = [p \in Paths |-> NoFile]
    /\ destFiles = <<>>
    /\ destToc = NoDoc
    /\ settings = [passphraseOfZip |-> ""]
    /\ timers = <<>>
    /\ budget = Budget(0, 0, 0, 0, 0)
    /\ touched = FALSE
    /\ usedNames = {}
    /\ \E entries \in ArchiveEntries, wanted \in SUBSET Paths, size \in {2, MaxChunk} :
          last = [op |-> "extractor", entries |-> entries, wanted |-> wanted,
                  chunks |-> pieces(finalize(entries), size), pushed |-> 0,
                  extractor |-> NewExtractor]

\* extractor.addZippedContent(chunk) for the next chunk of the archive
PushChunk ==
    /\ last.op = "extractor"
    /\ last.pushed < Len(last.chunks)
    /\ last' = [last EXCEPT
                  !.pushed = @ + 1,
                  !.extractor = addZippedContent(@, last.chunks[last.pushed + 1], last.wanted)]
    /\ UNCHANGED <<now, src, destFiles, destToc, settings, timers, budget, touched, usedNames>>

NextExtractor == PushChunk

SpecExtractor == InitExtractor /\ [][NextExtractor]_vars

----------------------------------------------------------------------------
(* main.ts: selectAndRestoreFolder, the [ALL] branch *)

\* the prefixes the folder browser reaches: the root, or the folder that
\* holds one of the paths
Prefixes == {""} \cup Paths

\* filename.startsWith(prefix)
prefixMatches(filename, prefix) == prefix = "" \/ filename = prefix

\* the timestamps pickRevisions offers under a prefix
pickRevisions(files, prefix) ==
    UNION {{getTime(files[f].history[i].modified) : i \in 1..Len(files[f].history)}
           : f \in {g \in DOMAIN files : prefixMatches(g, prefix)}}

\* the loop "keep only the latest one" over the history of one path: info
\* is <<>> or holds the entry kept so far
RECURSIVE keepLatest(_, _, _, _)
keepLatest(history, i, maxDate, info) ==
    IF i > Len(history) THEN info
    ELSE IF getTime(history[i].modified) > maxDate
         THEN keepLatest(history, i + 1, maxDate, info)
    ELSE IF info = <<>> THEN keepLatest(history, i + 1, maxDate, <<history[i]>>)
    ELSE IF getTime(info[1].modified) < getTime(history[i].modified)
         THEN keepLatest(history, i + 1, maxDate, <<history[i]>>)
         ELSE keepLatest(history, i + 1, maxDate, info)

\* zipMap (archive name -> paths) of the [ALL] branch
zipMapOf(files, prefix, maxDate) ==
    CHOOSE zipMap \in
      {[z \in {fileMap[f][1].zipName : f \in {g \in DOMAIN fileMap : fileMap[g] # <<>>}}
          |-> {f \in DOMAIN fileMap : fileMap[f] # <<>> /\ fileMap[f][1].zipName = z}]
       : fileMap \in {[f \in {g \in DOMAIN files : prefixMatches(g, prefix)} |->
                         keepLatest(files[f].history, 1, maxDate, <<>>)]}}
      : TRUE

\* selectAndRestoreFolder(undefined, prefix) with [ALL] picked, maxDate
\* picked in pickRevisions and the answer to "Are you sure to restore"
selectAndRestoreFolder(today, prefix, maxDate, answer) ==
    \E zipMap \in {zipMapOf(loadTOC(NoFault), prefix, maxDate)} :
    \E writes \in {IF answer
                   THEN sinkWrites(extractAll(zipMap, DOMAIN zipMap, NoFault), NoFault)
                   ELSE <<>>} :
        /\ budget' = [budget EXCEPT !.restores = @ - 1]
        /\ now' = today
        /\ src' \in vaultsAfter(writes, today)
        /\ touched' = (touched \/ src' # src)
        /\ last' = [op |-> "restoreFolder", prefix |-> prefix, maxDate |-> maxDate,
                    zipMap |-> zipMap, confirmed |-> answer,
                    written |-> {writes[k].name : k \in 1..Len(writes)}]
        /\ UNCHANGED <<destFiles, destToc, settings, timers, usedNames>>

RestoreFolderCommand ==
    /\ budget.restores > 0
    /\ \E today \in Later(now), prefix \in Prefixes, answer \in BOOLEAN :
        \E maxDate \in pickRevisions(loadTOC(NoFault), prefix) :
            selectAndRestoreFolder(today, prefix, maxDate, answer)

NextFolder ==
    \/ \E p \in Paths : \E v \in Versions(p) : Modify(p, v)
    \/ \E p \in Paths : Delete(p)
    \/ BackupCommand
    \/ ContinueBackup
    \/ RestoreFolderCommand

SpecFolder == InitRestore /\ [][NextFolder]_vars

----------------------------------------------------------------------------
(* RestoreView.ts: RestoreDialog, the footer of the dialog *)

\* the values of the "Restore Options" dropdown, in the order of addOptions
RestoreOptions == <<"new", "all", "all-delete">>

\* onOpen: `let option = ""`; the dropdown gets its options and no value,
\* so it shows the first of them
OpenDialog ==
    /\ budget.restores > 0
    /\ last.op # "dialog"
    /\ last' = [op |-> "dialog", option |-> "", shown |-> RestoreOptions[1]]
    /\ UNCHANGED <<now, src, destFiles, destToc, settings, timers, budget, touched, usedNames>>

\* the user picks another value: onChange((value) => { option = value; })
ChangeOption(value) ==
    /\ last.op = "dialog"
    /\ last.shown # value
    /\ last' = [last EXCEPT !.option = value, !.shown = value]
    /\ UNCHANGED <<now, src, destFiles, destToc, settings, timers, budget, touched, usedNames>>

\* the Restore button: onlyNew = option === "new", skipDeleted = option !==
\* "all-delete", restoreVault(onlyNew, skipDeleted, applyFiles, prefix)
ClickRestore ==
    /\ budget.restores > 0
    /\ last.op = "dialog"
    /\ LET onlyNew == last.option = "new"
           skipDeleted == last.option # "all-delete"
       IN  \E today \in Later(now), confirmed \in BOOLEAN :
           \E applyFiles \in FileFilters(loadTOC(NoFault)) \ {NoFilter} :
               restoreVault(today, onlyNew, skipDeleted, applyFiles, confirmed, NoFault)

NextDialog ==
    \/ \E p \in Paths : \E v \in Versions(p) : Modify(p, v)
    \/ \E p \in Paths : Delete(p)
    \/ BackupCommand
    \/ ContinueBackup
    \/ OpenDialog
    \/ \E k \in 1..Len(RestoreOptions) : ChangeOption(RestoreOptions[k])
    \/ ClickRestore

SpecDialog == InitRestore /\ [][NextDialog]_vars

----------------------------------------------------------------------------
(* The claims *)

\* the VersionHistory persisted at the destination
persisted == IF destToc.exists THEN parseYaml(destToc.bytes) ELSE EmptyToc
persistedNext == IF destToc'.exists THEN parseYaml(destToc'.bytes) ELSE EmptyToc

\* a step that is one run of createZip
IsPass == budget'.passes < budget.passes

\* a step that is one run of restoreVault
IsRestoreVault == budget'.restores < budget.restores /\ last'.op = "restoreVault"

digestAt(p) == computeDigest(src[p].content)
digestAtNext(p) == computeDigest(src'[p].content)

\* every live file is recorded under its current digest and every tracked
\* path without a live file is flagged missing
InSync ==
    /\ destToc.exists
    /\ \A p \in Paths :
          IF src[p] # NoFile
          THEN p \in DOMAIN persisted /\ persisted[p].digest = digestAt(p)
          ELSE p \in DOMAIN persisted => persisted[p].missing

\* the entries of the archive the pass of this step wrote, as an Extractor
\* taking every entry reads them from the pieces in piece order
writtenEntries ==
    pushChunks(NewExtractor,
               [k \in 1..last'.pieceCount |->
                    destFiles'[PieceFile(last'.newFileName, last'.firstPiece + k - 1)]],
               Paths \cup {InfoFile}).out

\* the history restoreVault selects from for path p under the filter of
\* this step, and the paths it queued
consideredHistory(p) ==
    IF last'.fileFilter.on
    THEN historyUpTo(persisted[p].history, last'.fileFilter.at[p])
    ELSE persisted[p].history
queued == UNION {last'.plan.zipFileMap[z] : z \in DOMAIN last'.plan.zipFileMap}
queuedNow == UNION {last.plan.zipFileMap[z] : z \in DOMAIN last.plan.zipFileMap}

\* C1 (as claimed): restoring a path from a history entry that a pass
\* appended for content C (extract with that entry's archive name) writes
\* bytes identical to C at the restore target, and nothing else, whether
\* the archive is one piece or several.
C1_RoundTrip ==
    last.op = "extract" /\ ~last.entry.missing =>
        /\ last.written # <<>>
        /\ \A k \in 1..Len(last.written) :
              computeDigest(last.written[k]) = last.entry.digest

C3_HistoryMonotonic ==
    [][IsPass =>
        \A p \in DOMAIN persisted :
            /\ p \in DOMAIN persistedNext
            /\ IsPrefix(persisted[p].history, persistedNext[p].history)]_vars

\* C4 (as claimed): every pass that writes output uses an archive name that
\* no earlier pass wrote under, the chained follow-up pass included, and
\* overwrites no piece that was at the destination before it.
C4_UniqueArchiveNames ==
    [][IsPass /\ last'.okWrites > 0 =>
        /\ last'.newFileName \notin usedNames
        /\ \A f \in DOMAIN destFiles :
              f \in DOMAIN destFiles' /\ destFiles'[f] = destFiles[f]]_vars

\* C5: with tombstoning in effect, a pass that read the VersionHistory and
\* persisted its result appends to every tracked path that is not flagged
\* missing and has no live file exactly one entry, with missing = true, an
\* empty digest and the name of the pass's archive, and flags the record
\* missing with an empty digest; and a pass appends nothing to a path that
\* is already flagged missing and still has no live file.
C5_TombstoneCreation ==
    [][IsPass /\ ~last'.loadFailed =>
        \A p \in DOMAIN persisted :
            /\ (~persisted[p].missing /\ src[p] = NoFile /\ ~last'.skippedDeleted
                    /\ last'.outcome = "ok") =>
                  /\ p \in DOMAIN persistedNext
                  /\ Len(persistedNext[p].history) = Len(persisted[p].history) + 1
                  /\ IsPrefix(persisted[p].history, persistedNext[p].history)
                  /\ LET e == persistedNext[p].history[Len(persistedNext[p].history)]
                     IN  e.missing /\ e.digest = EmptyDigest
                            /\ e.zipName = last'.newFileName
                  /\ persistedNext[p].missing
                  /\ persistedNext[p].digest = EmptyDigest
            /\ (persisted[p].missing /\ src[p] = NoFile) =>
                  /\ p \in DOMAIN persistedNext
                  /\ persistedNext[p].history = persisted[p].history
                  /\ p \notin last'.tombstoned]_vars

\* a pass that ran after the tombstone of a deleted path was persisted
C5_Witness ==
    /\ last.op = "backup" /\ ~last.loadFailed
    /\ \E p \in DOMAIN persisted :
          /\ src[p] = NoFile /\ persisted[p].missing
          /\ Len(persisted[p].history) = 2
          /\ persisted[p].history[2].missing
          /\ persisted[p].history[2].zipName # last.newFileName

C8_AsOfRestore ==
    [][IsRestoreVault /\ last'.fileFilter.on =>
        /\ \A z \in DOMAIN last'.plan.zipFileMap : \A p \in last'.plan.zipFileMap[z] :
              \E i \in 1..Len(persisted[p].history) :
                  LET e == persisted[p].history[i]
                  IN  /\ e.zipName = z
                      /\ getTime(e.modified) <= last'.fileFilter.at[p]
                      /\ \A j \in 1..Len(persisted[p].history) :
                            getTime(persisted[p].history[j].modified) <= last'.fileFilter.at[p]
                                => getTime(persisted[p].history[j].modified) <= getTime(e.modified)
        /\ (/\ DOMAIN persisted = {"A", "B"}
            /\ Len(persisted["A"].history) = 2 /\ Len(persisted["B"].history) = 1
            /\ ~persisted["A"].history[1].missing /\ ~persisted["A"].history[2].missing
            /\ ~persisted["B"].history[1].missing
            /\ persisted["A"].history[1].zipName = persisted["B"].history[1].zipName
            /\ persisted["A"].history[2].zipName # persisted["A"].history[1].zipName
            /\ ~last'.onlyNew
            /\ last'.asked => last'.confirmed) =>
              LET e1 == persisted["A"].history[1]
                  e2 == persisted["A"].history[2]
                  b1 == persisted["B"].history[1]
                  c == last'.fileFilter.at["A"]
              IN  /\ (getTime(e1.modified) <= c /\ c < getTime(e2.modified)
                        /\ getTime(b1.modified) <= c) =>
                        /\ src'["A"] # NoFile /\ digestAtNext("A") = e1.digest
                        /\ src'["B"] # NoFile /\ digestAtNext("B") = b1.digest
                  /\ (getTime(e1.modified) <= c /\ getTime(e2.modified) <= c
                        /\ getTime(b1.modified) <= c) =>
                        /\ src'["A"] # NoFile /\ digestAtNext("A") = e2.digest
                        /\ src'["B"] # NoFile /\ digestAtNext("B") = b1.digest]_vars

\* C9 (as claimed): for every tracked path and every cutoff for which the
\* latest history entry not after the cutoff is a real version, restoreVault
\* (all files, not only-new) with that cutoff queues the path under that
\* entry's archive whenever the live file is absent or differs, also when
\* a later pass has tombstoned the path.
C9_AnyPointInTime ==
    [][IsRestoreVault /\ last'.fileFilter.on /\ ~last'.onlyNew =>
        \A p \in DOMAIN persisted :
            (/\ consideredHistory(p) # <<>>
             /\ ~latestOf(consideredHistory(p)).missing
             /\ (src[p] = NoFile
                    \/ digestAt(p) # latestOf(consideredHistory(p)).digest)) =>
                /\ latestOf(consideredHistory(p)).zipName \in DOMAIN last'.plan.zipFileMap
                /\ p \in last'.plan.zipFileMap[latestOf(consideredHistory(p)).zipName]]_vars

\* C10: for every buffer and every positive chunk size pieces() yields
\* chunks whose concatenation in order is the buffer, every chunk but the
\* last having exactly chunkSize bytes and the last one between 1 and
\* chunkSize; and the pieces written for a finalized buffer, read back in
\* piece order, concatenate to that buffer.
C10_SplitReconstruction ==
    /\ last.op = "pieces" =>
        /\ Flatten(last.chunks) = last.source
        /\ \A i \in 1..Len(last.chunks) :
              /\ Len(last.chunks[i]) >= 1
              /\ Len(last.chunks[i]) <= last.chunkSize
              /\ i < Len(last.chunks) => Len(last.chunks[i]) = last.chunkSize
    /\ last.op = "written" =>
        /\ \A k \in 0..(last.count - 1) :
              backupsIsExists(PieceFile(last.zipName, last.pieceCount + k))
        /\ Flatten([k \in 1..last.count |->
                      destFiles[PieceFile(last.zipName, last.pieceCount + k - 1)]])
             = last.source

\* a buffer that pieces() split into three chunks, the last one short
C10_Witness ==
    /\ last.op = "pieces"
    /\ Len(last.chunks) = 3
    /\ Len(last.chunks[3]) < last.chunkSize

\* the chunks the pass of this step cut its finalized archive into
chunksWritten == pieces(last'.buf, stepOf(settings.maxSize, Len(last'.buf)))

\* a step that is a pass which wrote every piece of its archive
WroteAll == IsPass /\ last'.outcome \in {"ok", "tocFail"}

\* C11 (as claimed): when the finalized archive is larger than the max
\* size, its first chunk is written under the unsuffixed archive name and
\* chunk k + 1 under name.00k; three pieces are stored as name, name.001,
\* name.002.
C11_SplitNamingAsClaimed ==
    [][WroteAll /\ settings.maxSize > 0
            /\ Len(last'.buf) > stepOf(settings.maxSize, Len(last'.buf)) =>
        \A k \in 1..Len(chunksWritten) :
            /\ PieceFile(last'.newFileName, k - 1) \in DOMAIN destFiles'
            /\ destFiles'[PieceFile(last'.newFileName, k - 1)] = chunksWritten[k]]_vars

\* C11 (amended): when the finalized archive is larger than the max size,
\* chunk k is written under name.00k, starting from name.001, and nothing
\* is written under the unsuffixed archive name; three pieces are stored
\* as name.001, name.002, name.003.
C11_SplitNaming ==
    [][WroteAll /\ settings.maxSize > 0
            /\ Len(last'.buf) > stepOf(settings.maxSize, Len(last'.buf)) =>
        /\ last'.firstPiece = 1
        /\ \A k \in 1..Len(chunksWritten) :
              /\ PieceFile(last'.newFileName, k) \in DOMAIN destFiles'
              /\ destFiles'[PieceFile(last'.newFileName, k)] = chunksWritten[k]
        /\ \A f \in DOMAIN destFiles' :
              f \notin {PieceFile(last'.newFileName, k) : k \in 1..Len(chunksWritten)} =>
                  f \in DOMAIN destFiles /\ destFiles'[f] = destFiles[f]]_vars

\* an archive stored as the three pieces name.001, name.002, name.003 and
\* nothing under the unsuffixed name
C11_Witness ==
    /\ last.op = "backup" /\ last.outcome = "ok" /\ last.pieceCount = 3
    /\ settings.maxSize > 0
    /\ \A k \in 1..3 : backupsIsExists(PieceFile(last.newFileName, k))
    /\ ~backupsIsExists(PieceFile(last.newFileName, 0))
    /\ ~backupsIsExists(PieceFile(last.newFileName, 4))

\* C12: with max size 0 a pass writes its finalized archive, whatever its
\* length, as exactly one piece under the unsuffixed archive name, and
\* writes no numbered piece.
C12_MaxSizeZero ==
    [][WroteAll /\ settings.maxSize = 0 =>
        /\ last'.pieceCount = 1 /\ last'.firstPiece = 0
        /\ PieceFile(last'.newFileName, 0) \in DOMAIN destFiles'
        /\ destFiles'[PieceFile(last'.newFileName, 0)] = last'.buf
        /\ \A f \in DOMAIN destFiles' :
              f # PieceFile(last'.newFileName, 0) =>
                  f \in DOMAIN destFiles /\ destFiles'[f] = destFiles[f]]_vars

\* an archive holding both files, longer than two MiB, stored as one
\* unsuffixed piece
C12_Witness ==
    /\ last.op = "backup" /\ last.outcome = "ok" /\ settings.maxSize = 0
    /\ last.admitted = <<"A", "B">>
    /\ Len(last.buf) > 2 * MiB
    /\ DOMAIN destFiles = {PieceFile(last.newFileName, 0)}
    /\ destFiles[PieceFile(last.newFileName, 0)] = last.buf

\* the number of pieces of archive zipName after which the entry of target
\* is complete: the least k such that an Extractor fed the first k pieces
\* has delivered it (every piece, when it never does)
completesAt(zipName, target) ==
    LET files == zipFilesOf(zipName)
        done(k) == pushChunks(NewExtractor, [i \in 1..k |-> destFiles[files[i]]],
                              {target}).out # <<>>
    IN  IF \E k \in 1..Len(files) : done(k)
        THEN CHOOSE k \in 1..Len(files) : done(k) /\ \A j \in 1..(k - 1) : ~done(j)
        ELSE Len(files)

piecesDone ==
    {PieceFile(last'.newFileName, last'.firstPiece + k - 1) : k \in 1..last'.okWrites}

\* C14: the pieces a pass has written are always the first ones of its
\* archive, in piece order; and a pass that meets a failed piece write has
\* written the pieces before the failed one, writes none after it, does
\* not persist the VersionHistory, which stays what it was before the
\* pass, and schedules no follow-up pass.
C14_PieceOrderAndAbort ==
    [][IsPass /\ last'.outcome # "nothing" =>
        /\ last'.okWrites <= last'.pieceCount
        /\ \A k \in 1..last'.okWrites :
              /\ PieceFile(last'.newFileName, last'.firstPiece + k - 1) \in DOMAIN destFiles'
              /\ destFiles'[PieceFile(last'.newFileName, last'.firstPiece + k - 1)]
                    = chunksWritten[k]
        /\ \A f \in DOMAIN destFiles' :
              f \notin piecesDone => f \in DOMAIN destFiles /\ destFiles'[f] = destFiles[f]
        /\ last'.outcome = "pieceFail" =>
              /\ last'.okWrites < last'.pieceCount
              /\ destToc' = destToc
              /\ ~last'.chain
        /\ last'.outcome # "pieceFail" => last'.okWrites = last'.pieceCount]_vars

\* a pass whose second of three piece writes failed: name.001 is at the
\* destination, name.002 and name.003 are not, and no VersionHistory is
\* persisted
C14_Witness ==
    /\ last.op = "backup" /\ last.outcome = "pieceFail"
    /\ last.pieceCount = 3 /\ last.okWrites = 1 /\ last.firstPiece = 1
    /\ DOMAIN destFiles = {PieceFile(last.newFileName, 1)}
    /\ ~destToc.exists

\* C15 (as claimed): a pass that cannot read or decrypt the VersionHistory
\* document that exists at the destination is aborted: it writes no piece,
\* leaves the persisted VersionHistory as it was and never replaces it by
\* one rebuilt from an empty history.
C15_ReadFailureFatal ==
    [][IsPass /\ last'.loadFailed =>
        /\ destFiles' = destFiles
        /\ destToc' = destToc]_vars

\* the names of the entries of archive zipName at the destination, as an
\* Extractor taking every entry reads them
entryNames(zipName) ==
    LET files == zipFilesOf(zipName)
        out == pushChunks(NewExtractor, [i \in 1..Len(files) |-> destFiles[files[i]]],
                          Paths \cup {InfoFile}).out
    IN  [k \in 1..Len(out) |-> out[k].name]

\* C16 (as claimed): with one file per archive and automatic continuation,
\* when the first pass on an empty destination has archived A and its
\* chained follow-up, the second pass, has archived B, no failure having
\* occurred, there are two archives, the one holding
\* exactly A and the VersionHistory entry, the other exactly B and the
\* VersionHistory entry, and the persisted history of each file names the
\* archive that holds it.
C16_ChainingScenario ==
    (/\ settings.maxFilesInZip = 1 /\ settings.performNextBackupOnMaxFiles
     /\ budget.passes = MaxPasses - 2 /\ budget.faults = MaxFaults
     /\ last.op = "backup" /\ last.skippableFiles = {"A"}
     /\ last.outcome = "ok" /\ last.admitted = <<"B">>
     /\ DOMAIN persisted = {"A", "B"}
     /\ Len(persisted["A"].history) = 1 /\ Len(persisted["B"].history) = 1) =>
        LET a == persisted["A"].history[1].zipName
            b == persisted["B"].history[1].zipName
        IN  /\ a # b
            /\ b = last.newFileName
            /\ entryNames(a) = <<"A", InfoFile>>
            /\ entryNames(b) = <<"B", InfoFile>>

\* the changed files the scan of the pass of this step finds, in the order
\* of the enumeration: the live files outside skippableFiles that the
\* only-new rule does not keep out and whose digest is not the recorded one
changedFound ==
    SelectSeq(getAllFiles,
              LAMBDA p : /\ p \notin last'.skippableFiles
                         /\ p \notin last'.skippedOld
                         /\ (p \in DOMAIN persisted => persisted[p].digest # digestAt(p)))

\* C17: a pass admits at most maxFilesInZip files when that limit is
\* positive, and the archive it writes holds exactly the admitted files
\* besides the VersionHistory entry; a pass that hits no failure admits
\* the changed files of its scan in order and stops as soon as the limit is
\* reached, the rest being left to a later pass; with limit 0 it admits
\* every changed file of its scan to its single archive.
C17_MaxFilesLimit ==
    [][IsPass =>
        /\ settings.maxFilesInZip > 0 => Len(last'.admitted) <= settings.maxFilesInZip
        /\ WroteAll =>
              [k \in 1..Len(writtenEntries) |-> writtenEntries[k].name]
                  = Append(last'.admitted, InfoFile)
        /\ ~last'.faulty =>
              IF settings.maxFilesInZip > 0
              THEN last'.admitted =
                      SubSeq(changedFound, 1, Min(settings.maxFilesInZip, Len(changedFound)))
              ELSE last'.admitted = changedFound]_vars

\* with one file per archive, a pass that found two changed files admitted
\* the first one only and left the second to the follow-up pass
C17_Witness ==
    /\ settings.maxFilesInZip = 1
    /\ last.op = "backup" /\ ~last.faulty /\ last.outcome = "ok"
    /\ last.skippableFiles = {} /\ last.admitted = <<"A">>
    /\ src["B"] # NoFile /\ "B" \notin DOMAIN persisted
    /\ timers # <<>> /\ timers[Len(timers)].skippableFiles = {"A"}

\* C18 (as claimed): with a passphrase configured, on an accessor that is
\* not bound to the live source tree, of whatever backend variant,
\* writeBinary and writeTOC hand the backend the ciphertext of the data,
\* never the data, and readBinary and readTOC return the decryption of
\* what the backend holds.
C18_TransparentEncryption ==
    (settings.passphraseOfZip # "" /\ last.op # "accessor" /\ ~last.acc.isLocal) =>
        /\ last.op \in {"writeBinary", "writeTOC"} =>
              /\ destFiles[last.path] # last.data
              /\ destFiles[last.path]
                    = encryptCompatOpenSSL(last.data, settings.passphraseOfZip)
        /\ (last.op \in {"readBinary", "readTOC"} /\ last.path \in DOMAIN destFiles) =>
              last.result = decryptCompatOpenSSL(destFiles[last.path],
                                                 settings.passphraseOfZip)

\* C19: a run of restoreVault in which the confirmation was declined or the
\* dialog dismissed reads no archive piece and leaves the source tree as
\* it was; archives are read and files written only in a run that showed
\* the plan and got the confirmation.
C19_ConfirmationGate ==
    [][IsRestoreVault =>
        /\ ~last'.answer => src' = src /\ last'.read = 0 /\ last'.written = {}
        /\ (last'.read > 0 \/ last'.written # {} \/ src' # src) =>
              last'.asked /\ last'.answer]_vars

\* a bulk restore that had archives to extract from and was declined
C19_Witness ==
    /\ last.op = "restoreVault" /\ last.asked /\ ~last.answer
    /\ DOMAIN last.plan.zipFileMap # {}
    /\ last.read = 0 /\ last.written = {}
    /\ \E p \in Paths : src[p] = NoFile /\ p \in queuedNow

\* the tokens of archive zipName at the destination, in piece order
archiveTokens(zipName) ==
    LET files == zipFilesOf(zipName)
    IN  Flatten([i \in 1..Len(files) |-> destFiles[files[i]]])

\* archive zipName holds an entry for path p, and the data of that entry,
\* up to its end marker
holdsEntry(zipName, p) ==
    \E h \in 1..Len(archiveTokens(zipName)) :
        IsHeader(archiveTokens(zipName)[h]) /\ archiveTokens(zipName)[h].hdr = p
entryTokens(zipName, p) ==
    LET toks == archiveTokens(zipName)
        h == CHOOSE k \in 1..Len(toks) : IsHeader(toks[k]) /\ toks[k].hdr = p
        e == CHOOSE k \in (h + 1)..Len(toks) :
                /\ IsEnd(toks[k])
                /\ \A j \in (h + 1)..(k - 1) : ~IsEnd(toks[j])
    IN  SubSeq(toks, h + 1, e - 1)
corruptEntry(zipName, p) ==
    /\ holdsEntry(zipName, p)
    /\ \E k \in 1..Len(entryTokens(zipName, p)) : IsCorrupt(entryTokens(zipName, p)[k])
corruptArchive(zipName) ==
    \E k \in 1..Len(archiveTokens(zipName)) : IsCorrupt(archiveTokens(zipName)[k])

C21_OnlyNewSkip ==
    [][(IsPass /\ last'.onlyNew /\ ~last'.loadFailed) =>
        \A p \in Paths :
            (src[p] # NoFile /\ p \in DOMAIN persisted
                /\ src[p].mtime <= persisted[p].mtime) =>
                /\ p \notin last'.reads
                /\ \A k \in 1..Len(last'.admitted) : last'.admitted[k] # p
                /\ p \in DOMAIN persistedNext
                /\ persistedNext[p] = persisted[p]]_vars

\* an only-new pass has written an archive while it left out a live file
\* whose content differs from the recorded one but whose mtime is not newer
C21_Witness ==
    /\ last.op = "backup" /\ last.onlyNew /\ last.outcome = "ok"
    /\ last.skippedOld # {}
    /\ last.skippedOld \cap last.reads = {}
    /\ last.admitted # <<>>

\* the changed files of the scan of this step that could be read, in the
\* order of the enumeration
readableFound == SelectSeq(changedFound, LAMBDA p : p \notin last'.failed)

\* C22: a path whose stat or read fails during the scan of a pass is
\* skipped with its record and history unchanged, and the pass goes on: it
\* admits the changed files that could be read (up to the max-files limit)
\* and writes their archive and the VersionHistory.
C22_ScanFailureLocal ==
    [][(IsPass /\ last'.failed # {}) =>
        /\ \A p \in last'.failed :
              IF p \in DOMAIN persisted
              THEN p \in DOMAIN persistedNext /\ persistedNext[p] = persisted[p]
              ELSE p \notin DOMAIN persistedNext
        /\ last'.admitted =
              IF settings.maxFilesInZip > 0
              THEN SubSeq(readableFound, 1, Min(settings.maxFilesInZip, Len(readableFound)))
              ELSE readableFound
        /\ last'.admitted # <<>> => last'.outcome = "ok"]_vars

\* C23: in the archive a pass writes, the VersionHistory entry comes after
\* every file entry of the pass, and its content is the VersionHistory
\* document the same pass persists at the destination root.
C23_TocEntryLast ==
    [][(IsPass /\ last'.outcome = "ok") =>
        LET n == Len(writtenEntries)
        IN  /\ n = Len(last'.admitted) + 1
            /\ writtenEntries[n].name = InfoFile
            /\ \A k \in 1..(n - 1) : writtenEntries[k].name = last'.admitted[k]
            /\ destToc'.exists
            /\ writtenEntries[n].data = destToc'.bytes
            /\ \A p \in Paths :
                  (\E k \in 1..(n - 1) : writtenEntries[k].name = p) =>
                      /\ p \in DOMAIN parseYaml(writtenEntries[n].data)
                      /\ parseYaml(writtenEntries[n].data)[p].history
                            [Len(parseYaml(writtenEntries[n].data)[p].history)].zipName
                                = last'.newFileName]_vars

\* a pass has written and persisted an archive of two files
C23_Witness ==
    /\ last.op = "backup" /\ last.outcome = "ok"
    /\ Len(last.admitted) = 2
    /\ destToc.exists
    /\ \A p \in Paths : p \in DOMAIN persisted

\* the folders of the vault that hold the archives and the restored files:
\* the restore folder, and the destination folder when it is in the vault
stagingFolders ==
    {settings.restoreFolder}
        \cup (IF ~settings.bucketEnabled /\ ~isDesktopMode
              THEN {settings.backupFolderMobile} ELSE {})

\* C24: the paths a pass scans, and so the paths it can add to an archive
\* or to the VersionHistory, hold no path under the backup destination
\* folder or under the restore folder, in the vault and in desktop mode
\* alike, whatever the path separator of the platform.
C24_EnumerationExcludes ==
    last.op = "enumerate" =>
        \A k \in 1..Len(last.normalFiles), folder \in stagingFolders :
            ~IsPrefix(Append(folder, "/"), last.normalFiles[k])

\* C25: on every folder-aware backend, a write whose path is an existing
\* folder, or whose path needs a folder where a file exists, fails: the
\* colliding entry and every other existing entry stay as they were, and no
\* data is written at the path.
C25_CollisionNotResolved ==
    [][(last'.op = "write" /\ last' # last /\ last'.collided) =>
        /\ last'.result # "ok"
        /\ \A n \in TreeNodes : destFiles[n] # Missing => destFiles'[n] = destFiles[n]
        /\ destFiles'[last'.path].kind # "file"]_vars

\* a write has failed on a folder at its path, with a file kept below it
C25_Witness ==
    /\ last.op = "write" /\ last.collided /\ last.result # "ok"
    /\ destFiles[last.path].kind = "folder"
    /\ \E n \in TreeNodes : destFiles[n].kind = "file"

\* archive zipName is at the destination up to its central directory
wholeArchive(zipName) ==
    /\ zipFilesOf(zipName) # <<>>
    /\ archiveTokens(zipName) # <<>>
    /\ IsDirectory(archiveTokens(zipName)[Len(archiveTokens(zipName))])

\* C26: after any sequence of passes, successful or failed, every archive
\* named by a non-tombstone history entry of the persisted VersionHistory
\* is at the destination with all its pieces, and holds an entry for the
\* path of the record whose content has the digest of the history entry.
C26_ReferentialIntegrity ==
    \A p \in DOMAIN persisted : \A k \in 1..Len(persisted[p].history) :
        LET e == persisted[p].history[k]
        IN  ~e.missing =>
                /\ wholeArchive(e.zipName)
                /\ holdsEntry(e.zipName, p)
                /\ computeDigest(entryTokens(e.zipName, p)) = e.digest

\* each record of toc has the digest of the last entry of its history, and
\* is flagged missing exactly when that entry is a tombstone
consistentToc(toc) ==
    \A p \in DOMAIN toc :
        /\ toc[p].history # <<>>
        /\ LET e == toc[p].history[Len(toc[p].history)]
           IN  /\ toc[p].digest = e.digest
               /\ toc[p].missing <=> e.missing
               /\ e.missing => e.digest = EmptyDigest

\* C27: in the VersionHistory a pass embeds in its archive and in the one
\* it persists, each record's digest equals the digest of the last entry
\* of its history, and the record is flagged missing exactly when that
\* last entry is a tombstone (missing, empty digest).
C27_RecordHistoryConsistency ==
    [][IsPass =>
        /\ consistentToc(persistedNext)
        /\ WroteAll =>
              consistentToc(parseYaml(writtenEntries[Len(writtenEntries)].data))]_vars

\* a pass has persisted a VersionHistory with a tombstoned record and a
\* live one
C27_Witness ==
    /\ last.op = "backup" /\ last.outcome = "ok" /\ last.tombstoned # {}
    /\ \E p \in DOMAIN persisted : persisted[p].missing
    /\ \E p \in DOMAIN persisted : ~persisted[p].missing /\ persisted[p].digest # EmptyDigest

\* the state right after a successful full backup pass: the pass ran
\* on every path, without the only-new and skip-deleted options, hit no
\* failure, left nothing to a follow-up pass, and the vault has not changed
\* since
afterFullBackup ==
    /\ last.op = "backup" /\ last.outcome \in {"ok", "nothing"}
    /\ last.skippableFiles = {}
    /\ ~last.onlyNew /\ ~last.skippedDeleted /\ ~last.faulty
    /\ ~last.chain /\ timers = <<>>
    /\ ~touched

\* C28: right after a successful full backup pass, with the source
\* unchanged, a bulk restore of all paths with no cutoff plans no file and
\* no deletion, also when the mtime of a file moved backwards between two
\* passes.
C28_BackupThenRestoreNoOp ==
    [][(IsRestoreVault /\ afterFullBackup /\ ~last'.fileFilter.on /\ ~last'.faulty) =>
        /\ queued = {}
        /\ last'.plan.deletingFiles = {}]_vars

\* C29: a pass appends a tombstone for a path only if no file exists at
\* that path in the source tree, also when the hidden-inclusion setting
\* was on in the pass that recorded the path and is off in this pass.
C29_TombstoneOnlyIfGone ==
    [][IsPass => \A p \in last'.tombstoned : src[p] = NoFile]_vars

\* a pass that failed: a write of a piece or of the VersionHistory failed,
\* or the scan was ended by a rejected read
failedPass == last'.outcome \in {"pieceFail", "tocFail", "scanFail"}

\* C30: a pass that schedules a follow-up hands it its own exclusions and
\* every path it scanned, and scans no path it was told to exclude, so no
\* path is scanned by two passes of one chain; a failed pass schedules no
\* follow-up; and once the source tree has stopped changing every pending
\* follow-up runs and the chain ends with a pass that schedules none.
C30_ChainTermination ==
    /\ [][IsPass =>
            /\ Range(last'.processedFiles) \cap last'.skippableFiles = {}
            /\ last'.chain =>
                  /\ timers' # <<>>
                  /\ timers'[Len(timers')].skippableFiles
                        = last'.skippableFiles \cup Range(last'.processedFiles)
            /\ failedPass => ~last'.chain
            /\ ~last'.chain => Len(timers') <= Len(timers)]_vars
    /\ (timers # <<>>) ~> (timers = <<>>)

\* a chain has ended: a follow-up pass that excluded the paths scanned
\* before it has scheduled no successor, and no timer is pending
C30_Witness ==
    /\ last.op = "backup" /\ last.skippableFiles # {} /\ ~last.chain
    /\ timers = <<>>

\* the history entries of a VersionHistory, each with its path
entriesOf(toc) ==
    UNION {{<<p, toc[p].history[k]>> : k \in 1..Len(toc[p].history)} : p \in DOMAIN toc}

\* C31: nothing keeps two runs of createZip from overlapping, and a run
\* persists the VersionHistory it loaded at its start with its own
\* entries: every entry another run persisted in between, for an archive
\* that run wrote, is gone from the persisted VersionHistory.
C31_ConcurrentPassesLoseEntries ==
    [][\A i \in RunIds :
          (last.op = "runs" /\ last.runs[i].pc = "written" /\ last'.runs[i].pc = "done") =>
              /\ entriesOf(persistedNext) = entriesOf(last.runs[i].toc)
              /\ entriesOf(persistedNext)
                    \cap (entriesOf(persisted) \ entriesOf(last.runs[i].toc)) = {}]_vars

\* both runs are over and both persisted, each for an archive that is at
\* the destination, and the persisted VersionHistory lacks an entry that
\* one of them had persisted
C31_Witness ==
    /\ last.op = "runs"
    /\ \A i \in RunIds : last.runs[i].pc = "done" /\ last.runs[i].persisted
    /\ \E i \in RunIds :
          \E pe \in entriesOf(last.runs[i].toc) \ entriesOf(persisted) :
              /\ pe[2].zipName = last.runs[i].newFileName
              /\ \A j \in RunIds \ {i} : last.runs[j].newFileName # pe[2].zipName
              /\ wholeArchive(pe[2].zipName)

\* C32: when the promise of extract() resolves, every accepted entry has
\* been handed to the sink and its write has finished: no two restore
\* writes are in flight at once, the writes of one archive are finished
\* before the next archive is opened, and none is left when the bulk
\* restore is over.
C32_RestoreSequential ==
    last.op \in {"restoring", "restored"} =>
        /\ Cardinality(last.inflight) <= 1
        /\ last.opened > 0 => last.inflight = {}

\* the chunks the codec emitted without an error, in emission order
emittedData ==
    Flatten([k \in 1..Len(SelectSeq(last.emitted, LAMBDA e : ~e.err)) |->
                SelectSeq(last.emitted, LAMBDA e : ~e.err)[k].data])

\* C33: the result of the Archiver settles at most once, and once the
\* final chunk was handled it is settled; it resolves only after the codec
\* emitted its final chunk, with the concatenation of every output chunk
\* in emission order; and it is rejected, never resolved, when a codec
\* error or an abort was observed at or before the final chunk.
C33_ArchiverCompletion ==
    last.op = "archiver" =>
        /\ last.settlements <= 1
        /\ last.settlements = 1 <=> last.archiver.promise.state # "pending"
        /\ (last.finalSeen /\ ~last.archiver.finalising) =>
              last.archiver.promise.state # "pending"
        /\ last.archiver.promise.state = "resolved" =>
              /\ last.finalSeen
              /\ last.archiver.promise.value = emittedData
        /\ (last.errorSeen \/ last.abortSeen) => last.archiver.promise.state = "rejected"

\* the result was rejected for an abort seen at the final chunk, after
\* chunks had been put out
C33_Witness ==
    /\ last.op = "archiver" /\ last.finalSeen /\ last.abortSeen /\ ~last.errorSeen
    /\ last.archiver.promise.state = "rejected"
    /\ Len(last.archiver.output) >= 2

\* the tokens pushed into the Extractor so far
pushedTokens == Flatten(SubSeq(last.chunks, 1, last.pushed))

\* the entries of the archive whose header, and whose end, was pushed
headersPushed == Len(SelectSeq(pushedTokens, IsHeader))
endsPushed == Len(SelectSeq(pushedTokens, IsEnd))

\* C34: the predicate is invoked exactly once for each entry header, in
\* order; the sink is invoked exactly for the accepted entries whose
\* end-of-entry chunk was pushed, once each and in order, with the name of
\* the entry and the concatenation of its data chunks, and never for a
\* rejected entry or with bytes of another entry.
C34_ExtractorDispatch ==
    last.op = "extractor" =>
        /\ last.extractor.asked =
              [k \in 1..headersPushed |-> last.entries[k].name]
        /\ last.extractor.out =
              LET done == SelectSeq(SubSeq(last.entries, 1, endsPushed),
                                    LAMBDA e : e.name \in last.wanted)
              IN  [k \in 1..Len(done) |-> [name |-> done[k].name, data |-> done[k].data]]

\* an archive of an accepted and a rejected entry was pushed in several
\* chunks, and the sink got the accepted one
C34_Witness ==
    /\ last.op = "extractor" /\ last.pushed = Len(last.chunks) /\ last.pushed >= 3
    /\ Len(last.entries) = 2
    /\ last.entries[1].name \notin last.wanted /\ last.entries[1].data # <<>>
    /\ last.entries[2].name \in last.wanted /\ Len(last.entries[2].data) = 2
    /\ Len(last.extractor.out) = 1

\* C35: the plan of restoreVault places each selected path under exactly
\* one archive name, the archive of the latest entry of the history it
\* selects from, and after the confirmation every archive name of the plan
\* is extracted exactly once, with all the paths the plan holds under it.
C35_PlanShape ==
    [][IsRestoreVault =>
        LET zipFileMap == last'.plan.zipFileMap
            calls == last'.extracted
        IN  /\ \A f \in queued :
                  /\ Cardinality({z \in DOMAIN zipFileMap : f \in zipFileMap[z]}) = 1
                  /\ f \in DOMAIN persisted /\ consideredHistory(f) # <<>>
                  /\ f \in zipFileMap[latestOf(consideredHistory(f)).zipName]
            /\ \A z \in DOMAIN zipFileMap : zipFileMap[z] # {}
            /\ last'.confirmed =>
                  /\ {calls[k].zipName : k \in 1..Len(calls)} = DOMAIN zipFileMap
                  /\ \A j, k \in 1..Len(calls) : calls[j].zipName = calls[k].zipName => j = k
                  /\ \A k \in 1..Len(calls) : calls[k].files = zipFileMap[calls[k].zipName]
            /\ ~last'.confirmed => calls = <<>>]_vars

\* a confirmed restore whose plan holds two paths under one archive and a
\* third archive-path pair, and wrote them
C35_Witness ==
    /\ last.op = "restoreVault" /\ last.confirmed
    /\ \E z \in DOMAIN last.plan.zipFileMap : Cardinality(last.plan.zipFileMap[z]) = 2
    /\ Len(last.extracted) = 1
    /\ Cardinality(last.written) = 2

\* the (path, archive) pairs of a map from archive names to paths
pairsOf(zipMap) == UNION {{<<f, z>> : f \in zipMap[z]} : z \in DOMAIN zipMap}

\* what restoreVault(false, false, {prefix*: maxDate}) selects in the state
\* the folder restore of this step started from
bulkSelection ==
    restorePlan(persisted, FALSE, FALSE,
                Filter([f \in {g \in DOMAIN persisted : prefixMatches(g, last'.prefix)}
                          |-> last'.maxDate]),
                NoFault).zipFileMap

\* a step that is one run of the [ALL] branch of selectAndRestoreFolder
IsRestoreFolder == budget'.restores < budget.restores /\ last'.op = "restoreFolder"

\* C36 (as claimed): for the same prefix and cutoff the [ALL] branch of
\* selectAndRestoreFolder selects the same set of (path, archive) pairs as
\* restoreVault called with that prefix as a wildcard filter and the same
\* cutoff, for all files and without deletion.
C36_FolderSelectionSame ==
    [][IsRestoreFolder => pairsOf(last'.zipMap) = pairsOf(bulkSelection)]_vars

\* C37 (as claimed): the Restore button of the dialog calls restoreVault
\* with deletion of missing files requested exactly when the dropdown shows
\* "All and delete extra", and with only-new exactly when it shows "Only
\* new", also when the dropdown was never touched.
C37_DialogOptionMapping ==
    [][last.op = "dialog" /\ IsRestoreVault =>
        /\ last'.deleteMissing <=> last.shown = "all-delete"
        /\ last'.onlyNew <=> last.shown = "new"]_vars

\* C38 (as claimed): after a confirmed restoreVault with deletion of
\* missing files requested, no path the plan listed on deletingFiles still
\* exists in the live tree, and no such path was queued for extraction
\* from the archive its latest (tombstone) entry names.
C38_DeletionCarriedOut ==
    [][IsRestoreVault /\ last'.confirmed /\ last'.deleteMissing =>
        \A f \in last'.plan.deletingFiles :
            /\ src'[f] = NoFile
            /\ f \notin queued]_vars

\* C39 (as claimed): for every combination of desktopFolderEnabled,
\* bucketEnabled and mobile or desktop, the back-end chosen by
\* getStorageType and the folder returned by backupFolder belong to the
\* same destination: the external filesystem with the desktop folder, the
\* object store with the bucket folder, the in-tree store with the in-vault
\* folder.
C39_DestinationConsistent ==
    last.op = "enumerate" =>
        /\ last.storageType = "external" => last.backupFolder = settings.BackupFolderDesktop
        /\ last.storageType = "s3" => last.backupFolder = settings.backupFolderBucket
        /\ last.storageType = "normal" => last.backupFolder = settings.backupFolderMobile

====
